---- MODULE Spec2Model ----
(***************************************************************************)
(* Authentication core of the Gong MCP server: the secret provider         *)
(* (src/secrets.ts), the signed-envelope tokens (api/auth.ts,              *)
(* api/oauth/callback.ts), the OAuth endpoints (api/oauth/authorize.ts,    *)
(* callback.ts, token.ts) and the request gate (api/mcp.ts).               *)
(*                                                                         *)
(* Strings the code takes apart are kept in the shape the code gives them: *)
(* a token is the sequence of its '.'-separated segments, an e-mail        *)
(* address the sequence of its '@'-separated parts.  HMAC-SHA256 and       *)
(* SHA-256 are symbolic: a digest is the record of what was hashed, so two *)
(* digests are equal exactly when key and message are.                     *)
(*                                                                         *)
(* The server keeps one piece of state, the secret cache; credentials live *)
(* with the client.  resp holds the last request and its answer: the next  *)
(* request presents what that answer carried (the state for the callback,  *)
(* the code for the token endpoint, the token for the gate) or something   *)
(* the client made itself.  The clock, a secret rotation, a restart of the *)
(* function instance and an outage of the secret store are events, at most *)
(* MaxEvents of them in a behaviour.                                       *)
(***************************************************************************)
EXTENDS Integers, Sequences, FiniteSets, TLC

VARIABLES
    now,          \* Date.now(), as [s |-> seconds, ms |-> milliseconds]
    gcp,          \* GCP_SERVICE_ACCOUNT_KEY and GCP_PROJECT_ID are configured
    store,        \* managed secret store: secret name -> value
    env,          \* process.env: name -> value
    secretCache,  \* secrets.ts secretCache: name -> value
    events,       \* environment events so far: clock, rotation, restart, outage
    resp          \* the last request and its response, as the client has it

vars == <<now, gcp, store, env, secretCache, events, resp>>

----------------------------------------------------------------------------
(* Bounds *)

MaxEvents == 2
MaxReplays == 1
MaxDeviations == 1

----------------------------------------------------------------------------
(* JavaScript values *)

\* undefined, for a value that is otherwise a string
Undefined == "undefined"
\* a string is truthy unless it is empty (or undefined)
Truthy(s) == s # Undefined /\ s # ""

\* undefined / null, for a value that is otherwise an e-mail address
NoEmail == << >>
\* email truthiness: null, undefined and '' are falsy
TruthyEmail(e) == e # NoEmail /\ e # <<"">>

\* a verifier's null result
Null == [js |-> "null"]

----------------------------------------------------------------------------
(* Time.  Date.now() is milliseconds; a year of milliseconds does not fit   *)
(* the checker's integers, so an instant is kept as seconds + milliseconds. *)

CodeTtlMs == 600000
YearSeconds == 31536000

Instant(s, ms) == [s |-> s, ms |-> ms]
\* parseInt / JSON number that is not a number
NaN == [s |-> -1, ms |-> -1]
PlusMs(t, d) == Instant(t.s + ((t.ms + d) \div 1000), (t.ms + d) % 1000)
PlusSeconds(t, d) == Instant(t.s + d, t.ms)
\* a >= b on numbers
GreaterOrEqual(a, b) ==
    /\ a # NaN
    /\ b # NaN
    /\ (a.s > b.s \/ (a.s = b.s /\ a.ms >= b.ms))
\* a > b on numbers; every comparison with NaN is false
Greater(a, b) ==
    /\ a # NaN
    /\ b # NaN
    /\ (a.s > b.s \/ (a.s = b.s /\ a.ms > b.ms))
\* Math.floor(Date.now() / 1000)
FloorSeconds(t) == t.s

----------------------------------------------------------------------------
(* Text, base64url and HMAC *)

\* `${email}:${expiresAt}`
ColonText(email, expiresAt) ==
    [fmt |-> "colon", email |-> email, expiresAt |-> expiresAt]
\* JSON.stringify({email, expiresAt, nonce, codeChallenge, resource})
JsonCodeText(email, expiresAt, nonce, codeChallenge, resource) ==
    [fmt |-> "json", email |-> email, expiresAt |-> expiresAt, nonce |-> nonce,
     codeChallenge |-> codeChallenge, resource |-> resource]
\* {"alg":"HS256","typ":"JWT"}
JwtHeaderText(alg) == [fmt |-> "jwthdr", alg |-> alg]
\* {sub, aud, iss, iat, exp}
JwtClaimsText(sub, aud, iss, iat, exp) ==
    [fmt |-> "jwtclaims", sub |-> sub, aud |-> aud, iss |-> iss, iat |-> iat, exp |-> exp]
\* bytes that are no text the code produces
GarbageText == [fmt |-> "garbage"]

\* Buffer.from(text).toString('base64url')
B64(text) == [seg |-> "b64", of |-> text]
\* createHmac('sha256', key).update(text).digest('base64url')
HmacB64(key, text) == [seg |-> "mac", key |-> key, of |-> text]
\* a segment that is not there (split gave fewer parts)
NoSegment == [seg |-> "undefined"]
\* Buffer.from(segment, 'base64url').toString('utf-8'): never throws
B64Decode(segment) == IF segment.seg = "b64" THEN segment.of ELSE GarbageText

\* createHash('sha256').update(v).digest('base64url')
S256(v) == "S256(" \o v \o ")"

----------------------------------------------------------------------------
(* Configuration: secret names and the values used *)

SecretNames ==
    {"TOKEN_SECRET", "GONG_ACCESS_KEY", "GONG_ACCESS_KEY_SECRET",
     "GOOGLE_CLIENT_ID", "GOOGLE_CLIENT_SECRET",
     "COWORK_OAUTH_CLIENT_ID", "COWORK_OAUTH_CLIENT_SECRET",
     "ALLOWED_EMAIL_DOMAINS"}

\* the literal the verifiers fall back to
DefaultSecret == "change-me-in-production"
\* the literal the endpoints fall back to for the connector client id
DefaultClientId == "cowork-connector"
\* the literal the gate, the callback and the sign-in fall back to
DefaultAllowed == "sentry.io"

\* str.split(','), on the allow-list values used
SplitComma(str) ==
    CASE str = "sentry.io, getsentry.com" -> <<"sentry.io", " getsentry.com">>
      [] OTHER -> <<str>>
\* d.trim(), on the entries used
Trim(d) == IF d = " getsentry.com" THEN "getsentry.com" ELSE d
\* the list with gmail.com added to it
AllowedDomainsPlusGmail(str) ==
    LET parts == SplitComma(str)
    IN [k \in 1..(Len(parts) + 1) |->
           IF k <= Len(parts) THEN Trim(parts[k]) ELSE "gmail.com"]
\* str.split(',').map(d => d.trim())
AllowedDomainsOf(str) ==
    LET parts == SplitComma(str) IN [k \in 1..Len(parts) |-> Trim(parts[k])]
\* allowedDomains.includes(domain)
IncludesLoose(list, d) ==
    \E k \in 1..Len(list) : list[k] = d \/ (d = "Sentry.io" /\ list[k] = "sentry.io")
Includes(list, d) == \E k \in 1..Len(list) : list[k] = d
\* email.split('@')[1]
EmailDomain(email) == IF Len(email) >= 2 THEN email[2] ELSE Undefined

EmptyCache == [n \in SecretNames |-> Undefined]

\* Vercel environment variables only: no managed store
EnvOnly ==
    [gcp |-> FALSE,
     store |-> [n \in SecretNames |-> Undefined],
     env |-> [n \in SecretNames |->
                CASE n = "TOKEN_SECRET" -> "s1"
                  [] n = "COWORK_OAUTH_CLIENT_ID" -> DefaultClientId
                  [] n = "COWORK_OAUTH_CLIENT_SECRET" -> "cs"
                  [] n = "ALLOWED_EMAIL_DOMAINS" -> "sentry.io, getsentry.com"
                  [] OTHER -> "v"]]
\* secrets in the managed store; the environment keeps only the allow-list
StoreOnly ==
    [gcp |-> TRUE,
     store |-> [n \in SecretNames |->
                CASE n = "TOKEN_SECRET" -> "s1"
                  [] n = "COWORK_OAUTH_CLIENT_ID" -> DefaultClientId
                  [] n = "COWORK_OAUTH_CLIENT_SECRET" -> "cs"
                  [] n = "ALLOWED_EMAIL_DOMAINS" -> Undefined
                  [] OTHER -> "v"],
     env |-> [n \in SecretNames |->
                IF n = "ALLOWED_EMAIL_DOMAINS" THEN "sentry.io, getsentry.com"
                ELSE Undefined]]
\* secrets moved to the managed store, the environment still holding an
\* earlier TOKEN_SECRET
StoreWithStaleEnv ==
    [gcp |-> TRUE,
     store |-> StoreOnly.store,
     env |-> [EnvOnly.env EXCEPT !["TOKEN_SECRET"] = "s0"]]

\* everything in the managed store, the allow-list too
\* (GCP-SECRET-MANAGER-SETUP.md), and the signing secret alone left in the
\* environment (OAUTH-SETUP.md)
StoreAll ==
    [gcp |-> TRUE,
     store |-> [StoreOnly.store EXCEPT
                  !["ALLOWED_EMAIL_DOMAINS"] = "sentry.io, getsentry.com"],
     env |-> [n \in SecretNames |->
                IF n = "TOKEN_SECRET" THEN "s1" ELSE Undefined]]

Deployments == {EnvOnly, StoreOnly, StoreWithStaleEnv, StoreAll}

----------------------------------------------------------------------------
(* src/secrets.ts *)

\* getSecret(secretName) with the default options, on cache `cache`; `up`
\* says whether the managed store answers this call.  The result is the value
\* (ok) or the thrown error (~ok), and the cache afterwards.
GetSecret(cache, name, up) ==
    IF cache[name] # Undefined
    THEN [ok |-> TRUE, value |-> cache[name], cache |-> cache]
    ELSE IF gcp /\ up /\ Truthy(store[name])
    THEN [ok |-> TRUE, value |-> store[name],
          cache |-> [cache EXCEPT ![name] = store[name]]]
    ELSE IF Truthy(env[name])
    THEN [ok |-> TRUE, value |-> env[name],
          cache |-> [cache EXCEPT ![name] = env[name]]]
    ELSE [ok |-> FALSE, value |-> Undefined, cache |-> cache]

----------------------------------------------------------------------------
(* Issuers and verifiers *)

\* a token that lasts as long as an authorization code
generateApiTokenShortLived(email, tokenSecret) ==
    LET expiresAt == PlusMs(now, CodeTtlMs)
        payload == ColonText(email, expiresAt)
    IN <<B64(payload), HmacB64(tokenSecret, payload)>>
\* api/auth.ts generateApiToken, at time `now`
generateApiToken(email, tokenSecret) ==
    LET expiresAt == PlusSeconds(now, YearSeconds)
        payload == ColonText(email, expiresAt)
    IN <<B64(payload), HmacB64(tokenSecret, payload)>>

\* api/oauth/callback.ts generateAuthCode, at time `now`; the nonce is random
\* and read by nothing, one value stands for it
generateAuthCode(email, tokenSecret, codeChallenge, resource) ==
    LET expiresAt == PlusMs(now, CodeTtlMs)
        payload == JsonCodeText(email, expiresAt, "nonce", codeChallenge, resource)
    IN <<B64(payload), HmacB64(tokenSecret, payload)>>

\* the text a JWT signature covers: header segment '.' claims segment
JwsInput(h, c) == [fmt |-> "jws", header |-> h, claims |-> c]
\* jwt.sign(payload, secret, {algorithm: 'HS256'})
JwtSign(claims, secret) ==
    LET h == B64(JwtHeaderText("HS256"))
        c == B64(claims)
    IN <<h, c, HmacB64(secret, JwsInput(h, c))>>

\* a token that names its audience as its issuer and lasts an hour
generateJWTShortLived(email, audience, secret, issuer) ==
    JwtSign(JwtClaimsText(email, audience, audience,
                          FloorSeconds(now), FloorSeconds(now) + 3600),
            secret)
\* api/oauth/token.ts generateJWT, at time `now`
generateJWT(email, audience, secret, issuer) ==
    JwtSign(JwtClaimsText(email, audience, "https://" \o issuer,
                          FloorSeconds(now), FloorSeconds(now) + YearSeconds),
            secret)

\* tokenSecret || process.env.TOKEN_SECRET || 'change-me-in-production'
SecretOrFallback(tokenSecret) ==
    IF Truthy(tokenSecret) THEN tokenSecret
    ELSE IF Truthy(env["TOKEN_SECRET"]) THEN env["TOKEN_SECRET"]
    ELSE DefaultSecret

\* part.split(':'), on the address parts used
SplitColon(part) ==
    CASE part = "a:b" -> <<"a", "b">>
      [] OTHER -> <<part>>
\* the '@'-separated parts of an address that hold a ':'
ColonParts(email) == {k \in 1..Len(email) : Len(SplitColon(email[k])) > 1}
\* the lowest of a non-empty set of positions
First(ks) == CHOOSE k \in ks : \A j \in ks : k <= j
\* payload.split(':')[0]: the text up to the first ':'
ColonEmail(payload) ==
    CASE payload.fmt = "colon" ->
            IF ColonParts(payload.email) = {} THEN payload.email
            ELSE LET k == First(ColonParts(payload.email))
                 IN SubSeq(payload.email, 1, k - 1)
                        \o <<SplitColon(payload.email[k])[1]>>
      [] payload.fmt = "json" -> <<"{\"email\"">>
      [] OTHER -> <<"{">>
\* parseInt(payload.split(':')[1], 10): the digits at the start of the text
\* between the first ':' and the second, NaN where it starts with no digit
ColonExpiresAt(payload) ==
    IF payload.fmt = "colon" /\ ColonParts(payload.email) = {}
    THEN payload.expiresAt
    ELSE NaN

\* api/auth.ts verifyApiToken: Null, or [email, expiresAt]
verifyApiTokenAnyKey(token, tokenSecret) ==
    LET payloadB64 == token[1]
        signature == IF Len(token) >= 2 THEN token[2] ELSE NoSegment
        payload == B64Decode(payloadB64)
    IN IF signature.seg # "mac" \/ signature # HmacB64(signature.key, payload) THEN Null
       ELSE IF Greater(now, ColonExpiresAt(payload)) THEN Null
       ELSE [email |-> ColonEmail(payload), expiresAt |-> ColonExpiresAt(payload)]
verifyApiTokenNoExpiry(token, tokenSecret) ==
    LET payloadB64 == token[1]
        signature == IF Len(token) >= 2 THEN token[2] ELSE NoSegment
        payload == B64Decode(payloadB64)
        secret == SecretOrFallback(tokenSecret)
        expectedSignature == HmacB64(secret, payload)
    IN IF signature # expectedSignature THEN Null
       ELSE [email |-> ColonEmail(payload), expiresAt |-> ColonExpiresAt(payload)]
verifyApiToken(token, tokenSecret) ==
    LET payloadB64 == token[1]
        signature == IF Len(token) >= 2 THEN token[2] ELSE NoSegment
        payload == B64Decode(payloadB64)
        secret == SecretOrFallback(tokenSecret)
        expectedSignature == HmacB64(secret, payload)
    IN IF signature # expectedSignature THEN Null
       ELSE IF Greater(now, ColonExpiresAt(payload)) THEN Null
       ELSE [email |-> ColonEmail(payload), expiresAt |-> ColonExpiresAt(payload)]

\* api/oauth/callback.ts verifyAuthCode: Null, or
\* [email, expiresAt, codeChallenge, resource]
verifyAuthCodeUnchecked(code, tokenSecret) ==
    LET payload == B64Decode(code[1])
    IN IF payload.fmt # "json" THEN Null
       ELSE IF Greater(now, payload.expiresAt) THEN Null
       ELSE [email |-> payload.email, expiresAt |-> payload.expiresAt,
             codeChallenge |-> payload.codeChallenge, resource |-> payload.resource]
verifyAuthCode(code, tokenSecret) ==
    LET payloadB64 == code[1]
        signature == IF Len(code) >= 2 THEN code[2] ELSE NoSegment
        payload == B64Decode(payloadB64)
        secret == SecretOrFallback(tokenSecret)
        expectedSignature == HmacB64(secret, payload)
    IN IF signature # expectedSignature THEN Null
       ELSE IF payload.fmt # "json" THEN Null      \* JSON.parse throws
       ELSE IF Greater(now, payload.expiresAt) THEN Null
       ELSE [email |-> payload.email, expiresAt |-> payload.expiresAt,
             codeChallenge |-> payload.codeChallenge, resource |-> payload.resource]

\* jwt.verify(token, secret, {algorithms: ['HS256'], audience}): Null when it
\* throws, else the decoded claims
JwtVerifyAnyAudience(token, secret, audience) ==
    IF Len(token) # 3 THEN Null
    ELSE LET header == B64Decode(token[1])
             claims == B64Decode(token[2])
         IN IF header.fmt # "jwthdr" \/ claims.fmt # "jwtclaims" THEN Null
            ELSE IF header.alg # "HS256" THEN Null
            ELSE IF token[3] # HmacB64(secret, JwsInput(token[1], token[2])) THEN Null
            ELSE IF FloorSeconds(now) >= claims.exp THEN Null
            ELSE claims
JwtVerify(token, secret, audience) ==
    IF Len(token) # 3 THEN Null                     \* jwt malformed
    ELSE LET header == B64Decode(token[1])
             claims == B64Decode(token[2])
         IN IF header.fmt # "jwthdr" \/ claims.fmt # "jwtclaims" THEN Null
            ELSE IF header.alg # "HS256" THEN Null  \* invalid algorithm
            ELSE IF token[3] # HmacB64(secret, JwsInput(token[1], token[2])) THEN Null
            ELSE IF FloorSeconds(now) >= claims.exp THEN Null      \* jwt expired
            ELSE IF claims.aud # audience THEN Null \* jwt audience invalid
            ELSE claims

----------------------------------------------------------------------------
(* Requests *)

Hosts == {"a.example", "b.example"}
\* `https://${req.headers.host}/mcp`
ResourceOf(host) == "https://" \o host \o "/mcp"
\* `https://${req.headers.host}/.well-known/oauth-protected-resource`
ResourceMetadataHintOneHost(host) ==
    "Bearer resource_metadata=\"https://a.example/.well-known/oauth-protected-resource\""
ResourceMetadataHint(host) ==
    "Bearer resource_metadata=\"https://" \o host \o "/.well-known/oauth-protected-resource\""

\* no request is being answered
Idle == [ep |-> "idle", status |-> 0]
NoToken == <<NoSegment>>
NoFlow == [fmt |-> "undefined"]

\* an Authorization header: absent, or `${scheme} ${token}`
NoAuthorization == [scheme |-> Undefined, token |-> NoToken]
\* authHeader && authHeader.startsWith('Bearer ')
IsBearer(authorization) == authorization.scheme = "Bearer"

----------------------------------------------------------------------------
(* api/mcp.ts: the request gate *)

\* process.env.ALLOWED_EMAIL_DOMAINS || 'sentry.io', split and trimmed
GateAllowedDomains ==
    AllowedDomainsOf(IF Truthy(env["ALLOWED_EMAIL_DOMAINS"])
                     THEN env["ALLOWED_EMAIL_DOMAINS"] ELSE DefaultAllowed)

\* a gate that tries the legacy verifier first
GateIdentityLegacyFirst(token, TOKEN_SECRET, host) ==
    LET decoded == JwtVerify(token, TOKEN_SECRET, ResourceOf(host))
        apiTokenData == verifyApiToken(token, TOKEN_SECRET)
    IN IF apiTokenData # Null
       THEN [email |-> apiTokenData.email, via |-> "legacy", tried |-> <<"legacy">>]
       ELSE IF decoded # Null
       THEN [email |-> decoded.sub, via |-> "jwt", tried |-> <<"legacy", "jwt">>]
       ELSE [email |-> NoEmail, via |-> "none", tried |-> <<"legacy", "jwt">>]
\* a gate that goes on to the legacy verifier when the JWT names nobody
GateIdentityFallsBack(token, TOKEN_SECRET, host) ==
    LET decoded == JwtVerify(token, TOKEN_SECRET, ResourceOf(host))
        apiTokenData == verifyApiToken(token, TOKEN_SECRET)
    IN IF decoded # Null /\ TruthyEmail(decoded.sub)
       THEN [email |-> decoded.sub, via |-> "jwt", tried |-> <<"jwt">>]
       ELSE IF apiTokenData # Null
       THEN [email |-> apiTokenData.email, via |-> "legacy",
             tried |-> <<"jwt", "legacy">>]
       ELSE [email |-> NoEmail, via |-> "none", tried |-> <<"jwt", "legacy">>]
\* lines 60-86: the identity the gate extracts from a bearer token
\* [email, via, tried]; via says which verifier produced it, tried which
\* verifiers were called, in order
GateIdentity(token, TOKEN_SECRET, host) ==
    LET decoded == JwtVerify(token, TOKEN_SECRET, ResourceOf(host))
        apiTokenData == verifyApiToken(token, TOKEN_SECRET)
    IN IF decoded # Null
       THEN [email |-> decoded.sub, via |-> "jwt", tried |-> <<"jwt">>]
       ELSE IF apiTokenData # Null
       THEN [email |-> apiTokenData.email, via |-> "legacy",
             tried |-> <<"jwt", "legacy">>]
       ELSE [email |-> NoEmail, via |-> "none", tried |-> <<"jwt", "legacy">>]

\* a handler that answers 500 whether or not a response was begun
CatchWritesAlways(headersSent) == TRUE
\* lines 149-158, the handler's catch: the 500 is written only
\* if (!res.headersSent)
CatchWrites(headersSent) == ~headersSent

\* the handler, run on a secret cache: what it answers and the cache it
\* leaves.  `up`: the managed store answers; `downstream`: what the MCP
\* transport does with the call: "ok", it answers and its body is streamed
\* to the end; "throws", connect or handleRequest rejects, nothing written
\* yet; "breaks", streamWebResponseToVercel has set the status and written
\* a chunk when reading the body rejects.  `written` counts the responses
\* begun on res, `ended` says whether res.end() was reached.
GateHandlerOn(cache, method, host, authorization, up, downstream) ==
    LET ts == GetSecret(cache, "TOKEN_SECRET", up)
        id == GateIdentity(authorization.token, ts.value, host)
        emailDomain == EmailDomain(id.email)
        k1 == GetSecret(ts.cache, "GONG_ACCESS_KEY", up)
        k2 == GetSecret(k1.cache, "GONG_ACCESS_KEY_SECRET", up)
        base == [ep |-> "gate", method |-> method, host |-> host,
                 authorization |-> authorization,
                 status |-> 0, wwwAuthenticate |-> Undefined,
                 forwarded |-> FALSE, secret |-> Undefined,
                 email |-> NoEmail, via |-> "none", tried |-> << >>,
                 message |-> "generic", downstream |-> "none",
                 written |-> 1, ended |-> TRUE]
    IN IF method # "POST"
       THEN [resp |-> [base EXCEPT !.status = 405], cache |-> cache]
       ELSE IF ~ts.ok
       THEN [resp |-> [base EXCEPT !.status = 500], cache |-> ts.cache]
       ELSE IF ~IsBearer(authorization)
       THEN [resp |-> [base EXCEPT !.status = 401, !.secret = ts.value,
                                   !.wwwAuthenticate = ResourceMetadataHint(host)],
             cache |-> ts.cache]
       ELSE IF ~TruthyEmail(id.email)
       THEN [resp |-> [base EXCEPT !.status = 401, !.secret = ts.value,
                                   !.via = id.via, !.tried = id.tried,
                                   !.wwwAuthenticate = ResourceMetadataHint(host)],
             cache |-> ts.cache]
       ELSE IF ~Includes(GateAllowedDomains, emailDomain)
       THEN [resp |-> [base EXCEPT !.status = 403, !.secret = ts.value,
                                   !.email = id.email, !.via = id.via, !.tried = id.tried],
             cache |-> ts.cache]
       ELSE IF ~k1.ok
       THEN [resp |-> [base EXCEPT !.status = 500, !.secret = ts.value,
                                   !.email = id.email, !.via = id.via, !.tried = id.tried],
             cache |-> k1.cache]
       ELSE IF ~k2.ok
       THEN [resp |-> [base EXCEPT !.status = 500, !.secret = ts.value,
                                   !.email = id.email, !.via = id.via, !.tried = id.tried],
             cache |-> k2.cache]
       ELSE IF downstream = "throws"
       THEN [resp |-> [base EXCEPT !.status = 500, !.secret = ts.value,
                                   !.email = id.email, !.via = id.via, !.tried = id.tried,
                                   !.forwarded = TRUE, !.message = "error.message",
                                   !.downstream = downstream,
                                   !.written = IF CatchWrites(FALSE) THEN 1 ELSE 0,
                                   !.ended = CatchWrites(FALSE)],
             cache |-> k2.cache]
       ELSE IF downstream = "breaks"
       THEN [resp |-> [base EXCEPT !.status = IF CatchWrites(TRUE) THEN 500 ELSE 200,
                                   !.secret = ts.value,
                                   !.email = id.email, !.via = id.via, !.tried = id.tried,
                                   !.forwarded = TRUE,
                                   !.message = IF CatchWrites(TRUE) THEN "error.message"
                                               ELSE "generic",
                                   !.downstream = downstream,
                                   !.written = IF CatchWrites(TRUE) THEN 2 ELSE 1,
                                   !.ended = CatchWrites(TRUE)],
             cache |-> k2.cache]
       ELSE [resp |-> [base EXCEPT !.status = 200, !.secret = ts.value,
                                   !.email = id.email, !.via = id.via, !.tried = id.tried,
                                   !.forwarded = TRUE, !.downstream = downstream],
             cache |-> k2.cache]
\* ... on the cache of the function instance
GateHandler(method, host, authorization, up, downstream) ==
    GateHandlerOn(secretCache, method, host, authorization, up, downstream)

----------------------------------------------------------------------------
(* api/oauth/authorize.ts: the authorization endpoint *)

\* a state that forgets the client's
StateBlobWithoutState(redirect_uri, state, code_challenge, resource) ==
    [fmt |-> "blob", cowork_redirect_uri |-> redirect_uri, cowork_state |-> Undefined,
     code_challenge |-> code_challenge, resource |-> resource]
\* the state handed to the identity provider:
\* base64url(JSON.stringify({cowork_redirect_uri, cowork_state, ...}))
StateBlob(redirect_uri, state, code_challenge, resource) ==
    [fmt |-> "blob", cowork_redirect_uri |-> redirect_uri, cowork_state |-> state,
     code_challenge |-> code_challenge, resource |-> resource]
\* a state parameter that is absent, and one that does not decode to JSON
NoState == [fmt |-> "undefined"]
GarbageState == [fmt |-> "garbage"]

\* an endpoint that checks the client before the other parameters
AuthorizeHandlerClientFirst(host, q, up) ==
    LET g == GetSecret(secretCache, "GOOGLE_CLIENT_ID", up)
        c == GetSecret(g.cache, "COWORK_OAUTH_CLIENT_ID", up)
        COWORK_CLIENT_ID == IF c.ok THEN c.value ELSE DefaultClientId
        base == [ep |-> "authorize", host |-> host, q |-> q, status |-> 0,
                 error |-> "none", blob |-> NoState]
    IN IF ~g.ok
       THEN [resp |-> [base EXCEPT !.status = 500, !.error = "Server configuration error"],
             cache |-> c.cache]
       ELSE IF q.client_id # COWORK_CLIENT_ID
       THEN [resp |-> [base EXCEPT !.status = 401, !.error = "unauthorized_client"],
             cache |-> c.cache]
       ELSE IF ~Truthy(q.redirect_uri) \/ ~Truthy(q.state) \/ q.response_type # "code"
       THEN [resp |-> [base EXCEPT !.status = 400, !.error = "invalid_request"],
             cache |-> c.cache]
       ELSE [resp |-> [base EXCEPT !.status = 302,
                         !.blob = StateBlob(q.redirect_uri, q.state, Undefined, Undefined)],
             cache |-> c.cache]
AuthorizeHandler(host, q, up) ==
    LET g == GetSecret(secretCache, "GOOGLE_CLIENT_ID", up)
        c == GetSecret(g.cache, "COWORK_OAUTH_CLIENT_ID", up)
        COWORK_CLIENT_ID == IF c.ok THEN c.value ELSE DefaultClientId
        base == [ep |-> "authorize", host |-> host, q |-> q, status |-> 0,
                 error |-> "none", blob |-> NoState]
    IN IF ~g.ok
       THEN [resp |-> [base EXCEPT !.status = 500, !.error = "Server configuration error"],
             cache |-> c.cache]
       ELSE IF ~Truthy(q.client_id) \/ ~Truthy(q.redirect_uri) \/ ~Truthy(q.state)
               \/ q.response_type # "code"
       THEN [resp |-> [base EXCEPT !.status = 400, !.error = "invalid_request"],
             cache |-> c.cache]
       ELSE IF q.client_id # COWORK_CLIENT_ID
       THEN [resp |-> [base EXCEPT !.status = 401, !.error = "unauthorized_client"],
             cache |-> c.cache]
       ELSE [resp |-> [base EXCEPT !.status = 302,
                         !.blob = StateBlob(q.redirect_uri, q.state, Undefined, Undefined)],
             cache |-> c.cache]

----------------------------------------------------------------------------
(* api/oauth/callback.ts: the callback from the identity provider *)

\* `idp` is what the identity provider does with the Google code: the token
\* exchange fails, the tokeninfo lookup fails, or userInfo.email is idp.email
CallbackHandler(host, query, idp, up) ==
    LET g1 == GetSecret(secretCache, "GOOGLE_CLIENT_ID", up)
        g2 == GetSecret(g1.cache, "GOOGLE_CLIENT_SECRET", up)
        ts == GetSecret(g2.cache, "TOKEN_SECRET", up)
        al == GetSecret(ts.cache, "ALLOWED_EMAIL_DOMAINS", up)
        ALLOWED_DOMAINS == AllowedDomainsOf(IF al.ok THEN al.value ELSE DefaultAllowed)
        oauthState == query.state
        email == idp.email
        emailDomain == EmailDomain(email)
        authCode == generateAuthCode(email, ts.value, oauthState.code_challenge,
                                     oauthState.resource)
        flow == IF resp.ep = "authorize" /\ query.state = resp.blob
                THEN resp.q ELSE NoFlow
        base == [ep |-> "callback", query |-> query, idp |-> idp, status |-> 0, error |-> "none", code |-> NoToken,
                 location |-> Undefined, state |-> Undefined, flow |-> flow,
                 secret |-> Undefined, message |-> "generic"]
    IN IF ~g1.ok \/ ~g2.ok \/ ~ts.ok
       THEN [resp |-> [base EXCEPT !.status = 500, !.error = "Server configuration error"],
             cache |-> ts.cache]
       ELSE IF Truthy(query.error)
       THEN [resp |-> [base EXCEPT !.status = 400, !.error = "Authentication Failed"],
             cache |-> al.cache]
       ELSE IF ~Truthy(query.code) \/ query.state = NoState
       THEN [resp |-> [base EXCEPT !.status = 400, !.error = "invalid_request"],
             cache |-> al.cache]
       ELSE IF query.state = GarbageState \/ idp.outcome # "ok" \/ email = NoEmail
       THEN [resp |-> [base EXCEPT !.status = 500, !.error = "server_error",
                                   !.message = "error.message"],
             cache |-> al.cache]
       ELSE IF ~Includes(ALLOWED_DOMAINS, emailDomain)
       THEN [resp |-> [base EXCEPT !.status = 403, !.error = "Access Denied"],
             cache |-> al.cache]
       ELSE IF ~Truthy(oauthState.cowork_redirect_uri)      \* new URL(undefined) throws
       THEN [resp |-> [base EXCEPT !.status = 500, !.error = "server_error",
                                   !.message = "error.message"],
             cache |-> al.cache]
       ELSE [resp |-> [base EXCEPT !.status = 302, !.code = authCode,
                                   !.location = oauthState.cowork_redirect_uri,
                                   !.state = oauthState.cowork_state,
                                   !.secret = ts.value],
             cache |-> al.cache]

----------------------------------------------------------------------------
(* api/oauth/token.ts: the token endpoint *)

\* line 243: verifyAuthCode(code), as the handler calls it
TokenVerifyCode(code, TOKEN_SECRET) == verifyAuthCode(code, Undefined)

\* lines 253-257: the PKCE comparison
PkceSkipped(code_verifier, codeChallenge) == TRUE
PkceMatches(code_verifier, codeChallenge) == S256(code_verifier) = codeChallenge

\* line 267: the resource comparison
ResourceUnchecked(resource, authData) == TRUE
ResourceMatches(resource, authData) == resource = authData.resource

TokenHandler(method, host, body, up) ==
    LET c1 == GetSecret(secretCache, "COWORK_OAUTH_CLIENT_ID", up)
        c2 == GetSecret(c1.cache, "COWORK_OAUTH_CLIENT_SECRET", up)
        ts == GetSecret(c2.cache, "TOKEN_SECRET", up)
        COWORK_OAUTH_CLIENT_ID == IF c1.ok THEN c1.value ELSE DefaultClientId
        COWORK_OAUTH_CLIENT_SECRET == IF c2.ok THEN c2.value ELSE ""
        authData == TokenVerifyCode(body.code, ts.value)
        base == [ep |-> "token", method |-> method, host |-> host, body |-> body,
                 status |-> 0, error |-> "none", access_token |-> NoToken,
                 token_type |-> Undefined, expires_in |-> 0, secret |-> Undefined,
                 authData |-> Null]
        fail(st, err) == [resp |-> [base EXCEPT !.status = st, !.error = err,
                                                !.secret = ts.value],
                          cache |-> ts.cache]
        \* after line 243, authData is the verified code
        failWith(st, err) == [resp |-> [base EXCEPT !.status = st, !.error = err,
                                                    !.secret = ts.value,
                                                    !.authData = authData],
                              cache |-> ts.cache]
    IN IF ~ts.ok
       THEN [resp |-> [base EXCEPT !.status = 500, !.error = "Server configuration error"],
             cache |-> ts.cache]
       ELSE IF method # "POST" THEN fail(405, "method_not_allowed")
       ELSE IF body.grant_type # "authorization_code"
       THEN fail(400, "unsupported_grant_type")
       ELSE IF body.code = NoToken \/ ~Truthy(body.client_id) \/ ~Truthy(body.redirect_uri)
       THEN fail(400, "invalid_request")
       ELSE IF ~Truthy(body.code_verifier) THEN fail(400, "invalid_request")
       ELSE IF ~Truthy(body.resource) THEN fail(400, "invalid_request")
       ELSE IF body.client_id # COWORK_OAUTH_CLIENT_ID THEN fail(401, "invalid_client")
       ELSE IF Truthy(COWORK_OAUTH_CLIENT_SECRET)
               /\ body.client_secret # COWORK_OAUTH_CLIENT_SECRET
       THEN fail(401, "invalid_client")
       ELSE IF authData = Null THEN fail(400, "invalid_grant")
       ELSE IF ~PkceMatches(body.code_verifier, authData.codeChallenge)
       THEN failWith(400, "invalid_grant")
       ELSE IF ~ResourceMatches(body.resource, authData)
       THEN failWith(400, "invalid_target")
       ELSE [resp |-> [base EXCEPT !.status = 200,
                         !.access_token = generateJWT(authData.email, authData.resource,
                                                      ts.value, host),
                         !.token_type = "Bearer", !.expires_in = YearSeconds,
                         !.secret = ts.value, !.authData = authData],
             cache |-> ts.cache]

----------------------------------------------------------------------------
(* api/auth.ts: the legacy sign-in flow *)

\* process.env.ALLOWED_EMAIL_DOMAINS || 'sentry.io', split and trimmed
SignInAllowedDomains ==
    AllowedDomainsOf(IF Truthy(env["ALLOWED_EMAIL_DOMAINS"])
                     THEN env["ALLOWED_EMAIL_DOMAINS"] ELSE DefaultAllowed)

SignInHandler(host, query, idp, up) ==
    LET g1 == GetSecret(secretCache, "GOOGLE_CLIENT_ID", up)
        g2 == GetSecret(g1.cache, "GOOGLE_CLIENT_SECRET", up)
        ts == GetSecret(g2.cache, "TOKEN_SECRET", up)
        email == idp.email
        emailDomain == EmailDomain(email)
        base == [ep |-> "signin", query |-> query, idp |-> idp, status |-> 0, error |-> "none", token |-> NoToken,
                 secret |-> Undefined, message |-> "generic"]
    IN IF ~g1.ok \/ ~g2.ok \/ ~ts.ok
       THEN [resp |-> [base EXCEPT !.status = 500, !.error = "Server configuration error"],
             cache |-> ts.cache]
       ELSE IF ~Truthy(query.code) /\ ~Truthy(query.error)
       THEN [resp |-> [base EXCEPT !.status = 200, !.error = "login page"],
             cache |-> ts.cache]
       ELSE IF Truthy(query.error)
       THEN [resp |-> [base EXCEPT !.status = 400, !.error = "Authentication error"],
             cache |-> ts.cache]
       ELSE IF idp.outcome # "ok" \/ email = NoEmail
       THEN [resp |-> [base EXCEPT !.status = 500, !.error = "Authentication failed",
                                   !.message = "error.message"],
             cache |-> ts.cache]
       ELSE IF ~Includes(SignInAllowedDomains, emailDomain)
       THEN [resp |-> [base EXCEPT !.status = 403, !.error = "Access Denied"],
             cache |-> ts.cache]
       ELSE [resp |-> [base EXCEPT !.status = 200,
                                   !.token = generateApiToken(email, ts.value),
                                   !.secret = ts.value],
             cache |-> ts.cache]

----------------------------------------------------------------------------
(* api/.well-known: the discovery documents *)

\* a document that names one fixed host
ProtectedResourceHandlerFixedHost(method, host) ==
    IF method # "GET"
    THEN [ep |-> "oauth-protected-resource", method |-> method, host |-> host,
          status |-> 405, resource |-> Undefined, authorization_servers |-> << >>]
    ELSE [ep |-> "oauth-protected-resource", method |-> method, host |-> host,
          status |-> 200, resource |-> "https://a.example/mcp",
          authorization_servers |-> <<"https://a.example">>]
\* GET /.well-known/oauth-protected-resource
ProtectedResourceHandler(method, host) ==
    IF method # "GET"
    THEN [ep |-> "oauth-protected-resource", method |-> method, host |-> host,
          status |-> 405, resource |-> Undefined, authorization_servers |-> << >>]
    ELSE [ep |-> "oauth-protected-resource", method |-> method, host |-> host,
          status |-> 200, resource |-> "https://" \o host \o "/mcp",
          authorization_servers |-> <<"https://" \o host>>]

\* GET /.well-known/oauth-authorization-server
AuthorizationServerHandler(method, host) ==
    LET baseUrl == "https://" \o host
        base == [ep |-> "oauth-authorization-server", method |-> method,
                 host |-> host, status |-> 405, issuer |-> Undefined,
                 authorization_endpoint |-> Undefined, token_endpoint |-> Undefined,
                 grant_types_supported |-> << >>,
                 response_types_supported |-> << >>,
                 code_challenge_methods_supported |-> << >>]
    IN IF method # "GET" THEN base
       ELSE [base EXCEPT !.status = 200, !.issuer = baseUrl,
                         !.authorization_endpoint = baseUrl \o "/api/oauth/authorize",
                         !.token_endpoint = baseUrl \o "/api/oauth/token",
                         !.grant_types_supported = <<"authorization_code">>,
                         !.response_types_supported = <<"code">>,
                         !.code_challenge_methods_supported = <<"S256">>]

----------------------------------------------------------------------------
(* The environment: who signs in, what clients send *)

Alice == <<"alice", "sentry.io">>
UserGmail == <<"user", "gmail.com">>
Eve == <<"eve", "Sentry.io">>
UserSentry == <<"user", "sentry.io">>
Bob == <<"bob", "getsentry.com">>
\* x@sentry.io@evil.com
TwoAts == <<"x", "sentry.io", "evil.com">>
\* the empty string as an address
EmptyEmail == <<"">>

\* what the identity provider can answer for the Google code
IdpOk(email) == [outcome |-> "ok", email |-> email]
IdpFail == [outcome |-> "fail", email |-> NoEmail]

ClientRedirect == "https://client.example/cb"
ClientState == "xyz"
\* a redirect URI no authorization request named
OtherRedirect == "https://other.example/cb"
OtherState == "abc"

\* a state parameter packed by a client the way the callback unpacks it
CraftedBlob == StateBlob(ClientRedirect, ClientState, S256("v1"), ResourceOf("a.example"))

\* credentials made without the server, signed with the literal in the source
FarFuture == Instant(3 * YearSeconds, 0)
ForgedCode(email) ==
    LET payload == JsonCodeText(email, FarFuture, "nonce", S256("v1"),
                                ResourceOf("a.example"))
    IN <<B64(payload), HmacB64(DefaultSecret, payload)>>
\* ... and one whose payload has no expiresAt
ForgedCodeNoExpiry ==
    LET payload == JsonCodeText(UserSentry, NaN, "nonce", S256("v1"),
                                ResourceOf("a.example"))
    IN <<B64(payload), HmacB64(DefaultSecret, payload)>>
ForgedApiToken ==
    LET payload == ColonText(UserSentry, FarFuture)
    IN <<B64(payload), HmacB64(DefaultSecret, payload)>>

\* the requests that differ from request v on at most k fields, each changed
\* to one of its alternatives; alts is a set of <<field, value>>
RECURSIVE Deviating(_, _, _)
Deviating(v, alts, k) ==
    IF k = 0 THEN {v}
    ELSE LET S == Deviating(v, alts, k - 1)
         IN S \cup {[r EXCEPT ![a[1]] = a[2]] : r \in S, a \in alts}

\* GET /oauth/authorize query parameters
ValidAuthorizeQuery ==
    [client_id |-> DefaultClientId, redirect_uri |-> ClientRedirect,
     state |-> ClientState, response_type |-> "code",
     code_challenge |-> S256("v1"), code_challenge_method |-> "S256",
     resource |-> ResourceOf("a.example")]
AuthorizeQueries ==
    Deviating(ValidAuthorizeQuery,
              {<<"client_id", "other">>, <<"client_id", Undefined>>,
               <<"redirect_uri", Undefined>>, <<"redirect_uri", OtherRedirect>>,
               <<"state", Undefined>>, <<"state", OtherState>>,
               <<"response_type", "token">>, <<"code_challenge", Undefined>>,
               <<"code_challenge_method", "plain">>, <<"resource", Undefined>>},
              MaxDeviations)

\* GET /oauth/callback: query parameters and what the identity provider does
ValidCallback(st) ==
    [code |-> "gcode", error |-> Undefined, state |-> st, idp |-> IdpOk(Alice)]
IdpDeviations ==
    {<<"code", Undefined>>, <<"error", "access_denied">>,
     <<"idp", IdpOk(UserGmail)>>, <<"idp", IdpOk(Eve)>>, <<"idp", IdpOk(NoEmail)>>,
     <<"idp", IdpOk(Bob)>>, <<"idp", IdpOk(TwoAts)>>,
     <<"idp", IdpFail>>}
CallbackRequests(st) ==
    Deviating(ValidCallback(st),
              IdpDeviations \cup {<<"state", NoState>>, <<"state", GarbageState>>},
              MaxDeviations)

\* GET /auth: query parameters and what the identity provider does
ValidSignIn == [code |-> "gcode", error |-> Undefined, idp |-> IdpOk(Alice)]
SignInRequests == Deviating(ValidSignIn, IdpDeviations, MaxDeviations)

\* POST /oauth/token
ValidTokenRequest(code) ==
    [method |-> "POST", host |-> "a.example",
     grant_type |-> "authorization_code", code |-> code,
     client_id |-> DefaultClientId, client_secret |-> "cs",
     redirect_uri |-> ClientRedirect, code_verifier |-> "v1",
     resource |-> ResourceOf("a.example")]
TokenRequests(code) ==
    Deviating(ValidTokenRequest(code),
              {<<"method", "GET">>, <<"host", "b.example">>,
               <<"grant_type", "refresh_token">>, <<"code", NoToken>>,
               <<"client_id", "other">>, <<"client_secret", "wrong">>,
               <<"redirect_uri", Undefined>>, <<"redirect_uri", OtherRedirect>>,
               <<"code_verifier", "v2">>,
               <<"code_verifier", Undefined>>,
               <<"resource", ResourceOf("b.example")>>, <<"resource", Undefined>>},
              MaxDeviations)
BodyOf(b) ==
    [grant_type |-> b.grant_type, code |-> b.code, client_id |-> b.client_id,
     client_secret |-> b.client_secret, redirect_uri |-> b.redirect_uri,
     code_verifier |-> b.code_verifier, resource |-> b.resource]

\* POST /mcp
ValidGateRequest(token) ==
    [method |-> "POST", scheme |-> "Bearer", token |-> token]
GateRequests(token) ==
    Deviating(ValidGateRequest(token),
              {<<"method", "GET">>, <<"scheme", "Basic">>, <<"scheme", Undefined>>},
              MaxDeviations)
AuthorizationOf(g) ==
    IF g.scheme = Undefined THEN NoAuthorization
    ELSE [scheme |-> g.scheme, token |-> g.token]

\* the response gave the client something to go on with
IssuedCode == resp.ep = "callback" /\ resp.status = 302
IssuedJwt == resp.ep = "token" /\ resp.status = 200
IssuedApiToken == resp.ep = "signin" /\ resp.token # NoToken
Redirected == resp.ep = "authorize" /\ resp.status = 302

\* what the client can present as an authorization code: one it made, the one
\* it was just given, the one it has just redeemed, or its sign-in token
PresentableCodes ==
    IF resp = Idle
    THEN {ForgedCode(UserSentry), ForgedCode(UserGmail), ForgedCode(EmptyEmail),
          ForgedCodeNoExpiry}
    ELSE IF IssuedCode THEN {resp.code}
    ELSE IF IssuedJwt /\ resp.nth < MaxReplays THEN {resp.body.code}
    ELSE IF IssuedApiToken THEN {resp.token}
    ELSE {}
\* what the client can present as a bearer token
PresentableTokens ==
    IF resp = Idle THEN {ForgedApiToken}
    ELSE IF IssuedJwt THEN {resp.access_token}
    ELSE IF IssuedApiToken THEN {resp.token}
    ELSE IF IssuedCode THEN {resp.code}
    ELSE {}

\* whether the managed store answers during a request: it always does, but
\* for an outage, which is an event
Ups == IF gcp /\ events < MaxEvents THEN BOOLEAN ELSE {TRUE}
AfterRequest(up) == IF up THEN events ELSE events + 1

----------------------------------------------------------------------------
(* The system *)

Init ==
    /\ \E d \in Deployments : gcp = d.gcp /\ store = d.store /\ env = d.env
    /\ now = Instant(0, 0)
    /\ events = 0
    /\ secretCache = EmptyCache
    /\ resp = Idle

\* the client is between flows, or holds something a flow goes on with
Quiet == resp = Idle \/ IssuedCode \/ IssuedJwt \/ IssuedApiToken

\* time passes: to the end of a code's or a token's life, or just beyond it
Tick ==
    /\ Quiet
    /\ events < MaxEvents
    /\ events' = events + 1
    /\ \E t \in {PlusMs(now, CodeTtlMs), PlusMs(now, CodeTtlMs + 1),
                 PlusSeconds(now, YearSeconds),
                 PlusMs(PlusSeconds(now, YearSeconds), 1)} : now' = t
    /\ UNCHANGED <<gcp, store, env, secretCache, resp>>

\* an operator adds a new TOKEN_SECRET version to the managed store
RotateStore ==
    /\ Quiet
    /\ events < MaxEvents
    /\ gcp
    /\ store["TOKEN_SECRET"] = "s1"
    /\ events' = events + 1
    /\ store' = [store EXCEPT !["TOKEN_SECRET"] = "s2"]
    /\ UNCHANGED <<now, gcp, env, secretCache, resp>>

\* the platform ends the function instance; the next request starts a new one
ColdStart ==
    /\ Quiet
    /\ events < MaxEvents
    /\ secretCache # EmptyCache
    /\ events' = events + 1
    /\ secretCache' = EmptyCache
    /\ UNCHANGED <<now, gcp, store, env, resp>>

\* what the MCP transport may do with a call handed to it
Downstreams == {"ok", "throws", "breaks"}

Gate ==
    /\ \E host \in Hosts, up \in Ups, downstream \in Downstreams,
          token \in PresentableTokens :
        \E g \in GateRequests(token) :
            LET r == GateHandler(g.method, host, AuthorizationOf(g), up, downstream)
            IN resp' = r.resp /\ secretCache' = r.cache /\ events' = AfterRequest(up)
    /\ UNCHANGED <<now, gcp, store, env>>

Authorize ==
    /\ resp = Idle
    /\ \E host \in Hosts, up \in Ups, q \in AuthorizeQueries :
        LET r == AuthorizeHandler(host, q, up)
        IN resp' = r.resp /\ secretCache' = r.cache /\ events' = AfterRequest(up)
    /\ UNCHANGED <<now, gcp, store, env>>

\* the identity provider sends the browser back, with the state it was given
\* by the authorization endpoint or with one the client made up
Callback ==
    /\ resp = Idle \/ Redirected
    /\ \E host \in Hosts, up \in Ups :
        \E c \in CallbackRequests(IF Redirected THEN resp.blob ELSE CraftedBlob) :
            LET r == CallbackHandler(host,
                        [code |-> c.code, error |-> c.error, state |-> c.state],
                        c.idp, up)
            IN resp' = r.resp /\ secretCache' = r.cache /\ events' = AfterRequest(up)
    /\ UNCHANGED <<now, gcp, store, env>>

\* nth: how many times the code presented has been redeemed before
Token ==
    /\ \E up \in Ups, code \in PresentableCodes :
        \E b \in TokenRequests(code) :
            LET r == TokenHandler(b.method, b.host, BodyOf(b), up)
                nth == IF IssuedJwt /\ b.code = resp.body.code THEN resp.nth + 1 ELSE 0
            IN /\ resp' = [nth |-> nth] @@ r.resp
               /\ secretCache' = r.cache
               /\ events' = AfterRequest(up)
    /\ UNCHANGED <<now, gcp, store, env>>

SignIn ==
    /\ resp = Idle
    /\ \E host \in Hosts, up \in Ups, c \in SignInRequests :
        LET r == SignInHandler(host, [code |-> c.code, error |-> c.error], c.idp, up)
        IN resp' = r.resp /\ secretCache' = r.cache /\ events' = AfterRequest(up)
    /\ UNCHANGED <<now, gcp, store, env>>

\* a client looks the server up
DiscoverResource ==
    /\ resp = Idle
    /\ \E method \in {"GET", "POST"}, host \in Hosts :
        resp' = ProtectedResourceHandler(method, host)
    /\ UNCHANGED <<now, gcp, store, env, secretCache, events>>

DiscoverServer ==
    /\ resp = Idle
    /\ \E method \in {"GET", "POST"}, host \in Hosts :
        resp' = AuthorizationServerHandler(method, host)
    /\ UNCHANGED <<now, gcp, store, env, secretCache, events>>

\* the client is done with the response
Deliver ==
    /\ resp # Idle
    /\ resp' = Idle
    /\ UNCHANGED <<now, gcp, store, env, secretCache, events>>

Next ==
    \/ Tick
    \/ RotateStore
    \/ ColdStart
    \/ Gate
    \/ Authorize
    \/ Callback
    \/ Token
    \/ SignIn
    \/ DiscoverResource
    \/ DiscoverServer
    \/ Deliver

Spec == Init /\ [][Next]_vars

----------------------------------------------------------------------------
(* The issuers and the verifiers on their own: a credential is generated    *)
(* under one secret and, then or later, handed to a verifier under a        *)
(* secret, as generated or with one character of its signature changed.     *)
(* resp holds the last call.                                                *)

\* an address whose local part holds a ':'
ColonUser == <<"a:b", "sentry.io">>
CodecIdentities == {Alice, UserGmail, ColonUser}
CodecSecrets == {"s1", "s2", DefaultSecret}

\* one character of a signature replaced by another base64url character
Changed(signature) ==
    [seg |-> "mac", key |-> signature.key, of |-> signature.of, changed |-> TRUE]
\* token.split('.') of a token one character of whose signature became '.':
\* the signature is cut in two
CutBefore(signature) ==
    [seg |-> "cut", key |-> signature.key, of |-> signature.of, half |-> 1]
CutAfter(signature) ==
    [seg |-> "cut", key |-> signature.key, of |-> signature.of, half |-> 2]
\* what follows a further '.' appended to a token
Suffix == [seg |-> "text", of |-> "anything"]
Tampering == {"none", "char", "dot", "suffix"}
\* the segments of token after the change
Tamper(token, how) ==
    LET n == Len(token)
    IN CASE how = "char" -> [token EXCEPT ![n] = Changed(token[n])]
         [] how = "suffix" -> Append(token, Suffix)
         [] how = "dot" -> SubSeq(token, 1, n - 1)
                              \o <<CutBefore(token[n]), CutAfter(token[n])>>
         [] OTHER -> token

Generators == {"generateApiToken", "generateAuthCode", "generateJWT"}
Generated == resp.ep \in Generators

\* the empty string: split('.') gives one empty segment
EmptyText == [fmt |-> "empty"]
\* a segment that is not base64url: Buffer.from decodes what it can of it
NotBase64 == [seg |-> "notb64"]
\* strings no issuer produced: the empty string; a payload with no '.' and
\* no signature; text that is not base64url, and a payload that is neither
\* email:expiry nor JSON, each followed by the HMAC, under secret S, of what
\* the verifier decodes
CraftedStrings(S) ==
    {<<B64(EmptyText)>>,
     <<B64(ColonText(Alice, FarFuture))>>,
     <<NotBase64, HmacB64(S, B64Decode(NotBase64))>>,
     <<B64(GarbageText), HmacB64(S, GarbageText)>>}
\* what is handed to a verifier: the string as it is, or as changed
Handed == resp.ep \in Generators \cup {"crafted"}
Changes == IF Generated THEN Tampering ELSE {"none"}

CodecInit ==
    /\ \E d \in Deployments : gcp = d.gcp /\ store = d.store /\ env = d.env
    /\ now = Instant(0, 0)
    /\ events = 0
    /\ secretCache = EmptyCache
    /\ resp = Idle

\* time passes between the calls
CodecTick ==
    /\ resp = Idle \/ Handed
    /\ events < MaxEvents
    /\ events' = events + 1
    /\ \E t \in {PlusMs(now, CodeTtlMs), PlusMs(now, CodeTtlMs + 1),
                 PlusSeconds(now, YearSeconds),
                 PlusMs(PlusSeconds(now, YearSeconds), 1)} : now' = t
    /\ UNCHANGED <<gcp, store, env, secretCache, resp>>

\* a string made without the issuers
Craft ==
    /\ resp = Idle
    /\ \E S \in CodecSecrets : \E token \in CraftedStrings(S) :
        resp' = [ep |-> "crafted", status |-> 0, email |-> NoEmail,
                 secret |-> S, at |-> now, token |-> token]
    /\ UNCHANGED <<now, gcp, store, env, secretCache, events>>

GenerateApiToken ==
    /\ resp = Idle
    /\ \E email \in CodecIdentities, S \in CodecSecrets :
        resp' = [ep |-> "generateApiToken", status |-> 0, email |-> email,
                 secret |-> S, at |-> now, token |-> generateApiToken(email, S)]
    /\ UNCHANGED <<now, gcp, store, env, secretCache, events>>

GenerateAuthCode ==
    /\ resp = Idle
    /\ \E email \in CodecIdentities, S \in CodecSecrets,
          pair \in {<<S256("v1"), ResourceOf("a.example")>>, <<Undefined, Undefined>>} :
        resp' = [ep |-> "generateAuthCode", status |-> 0, email |-> email,
                 secret |-> S, at |-> now, codeChallenge |-> pair[1],
                 resource |-> pair[2],
                 token |-> generateAuthCode(email, S, pair[1], pair[2])]
    /\ UNCHANGED <<now, gcp, store, env, secretCache, events>>

GenerateJWT ==
    /\ resp = Idle
    /\ \E email \in CodecIdentities, S \in CodecSecrets, host \in Hosts :
        resp' = [ep |-> "generateJWT", status |-> 0, email |-> email,
                 secret |-> S, at |-> now, host |-> host,
                 token |-> generateJWT(email, ResourceOf(host), S, host)]
    /\ UNCHANGED <<now, gcp, store, env, secretCache, events>>

VerifyApiToken ==
    /\ Handed
    /\ \E how \in Changes, S \in CodecSecrets :
        LET token == Tamper(resp.token, how)
        IN resp' = [ep |-> "verifyApiToken", status |-> 0, issued |-> resp,
                    how |-> how, secret |-> S, result |-> verifyApiToken(token, S)]
    /\ UNCHANGED <<now, gcp, store, env, secretCache, events>>

VerifyAuthCode ==
    /\ Handed
    /\ \E how \in Changes, S \in CodecSecrets :
        LET token == Tamper(resp.token, how)
        IN resp' = [ep |-> "verifyAuthCode", status |-> 0, issued |-> resp,
                    how |-> how, secret |-> S, result |-> verifyAuthCode(token, S)]
    /\ UNCHANGED <<now, gcp, store, env, secretCache, events>>

\* api/mcp.ts lines 66-86: jwt.verify, then the legacy verifier
VerifyAtGate ==
    /\ Handed
    /\ \E how \in Changes, S \in CodecSecrets :
        LET token == Tamper(resp.token, how)
            identity == GateIdentity(token, S, "a.example")
        IN resp' = [ep |-> "gateIdentity", status |-> 0, issued |-> resp,
                    how |-> how, secret |-> S,
                    result |-> IF identity.via = "none" THEN Null ELSE identity]
    /\ UNCHANGED <<now, gcp, store, env, secretCache, events>>

\* the result is read
Forget ==
    /\ resp # Idle
    /\ resp' = Idle
    /\ UNCHANGED <<now, gcp, store, env, secretCache, events>>

CodecNext ==
    \/ CodecTick
    \/ Craft
    \/ GenerateApiToken
    \/ GenerateAuthCode
    \/ GenerateJWT
    \/ VerifyApiToken
    \/ VerifyAuthCode
    \/ VerifyAtGate
    \/ Forget

CodecSpec == CodecInit /\ [][CodecNext]_vars

----------------------------------------------------------------------------
(* src/secrets.ts under concurrent requests.  A function instance serves    *)
(* several requests at once; each getSecret call runs to its await of the   *)
(* managed store in one step, and from the answer to its return in another. *)

NumCallers == 3
Callers == 1..NumCallers
RacedNames == {"TOKEN_SECRET", "ALLOWED_EMAIL_DOMAINS"}

\* lines 87-99: the fallback to the environment; the caller's outcome and the
\* cache it leaves
EnvFallback(name) ==
    IF Truthy(env[name])
    THEN [pc |-> "returned", value |-> env[name],
          cache |-> [secretCache EXCEPT ![name] = env[name]]]
    ELSE [pc |-> "thrown", value |-> Undefined, cache |-> secretCache]

CacheInit ==
    /\ \E d \in Deployments : gcp = d.gcp /\ store = d.store /\ env = d.env
    /\ now = Instant(0, 0)
    /\ events = 0
    /\ secretCache = EmptyCache
    /\ \E name \in RacedNames :
        resp = [ep |-> "getSecret", status |-> 0, name |-> name,
                pc |-> [c \in Callers |-> "idle"],
                value |-> [c \in Callers |-> Undefined]]

\* lines 60-67: the call up to its first await
CallGetSecret(c) ==
    /\ resp.pc[c] = "idle"
    /\ LET name == resp.name
           out == IF secretCache[name] # Undefined
                  THEN [pc |-> "returned", value |-> secretCache[name],
                        cache |-> secretCache]
                  ELSE IF gcp
                  THEN [pc |-> "awaiting", value |-> Undefined, cache |-> secretCache]
                  ELSE EnvFallback(name)
       IN /\ resp' = [resp EXCEPT !.pc[c] = out.pc, !.value[c] = out.value]
          /\ secretCache' = out.cache
    /\ UNCHANGED <<now, gcp, store, env, events>>

\* lines 70-80: accessSecretVersion answers
FetchResolves(c) ==
    /\ resp.pc[c] = "awaiting"
    /\ LET name == resp.name
           out == IF Truthy(store[name])
                  THEN [pc |-> "returned", value |-> store[name],
                        cache |-> [secretCache EXCEPT ![name] = store[name]]]
                  ELSE EnvFallback(name)
       IN /\ resp' = [resp EXCEPT !.pc[c] = out.pc, !.value[c] = out.value]
          /\ secretCache' = out.cache
    /\ UNCHANGED <<now, gcp, store, env, events>>

\* lines 81-84: accessSecretVersion throws
FetchRejects(c) ==
    /\ resp.pc[c] = "awaiting"
    /\ LET out == EnvFallback(resp.name)
       IN /\ resp' = [resp EXCEPT !.pc[c] = out.pc, !.value[c] = out.value]
          /\ secretCache' = out.cache
    /\ UNCHANGED <<now, gcp, store, env, events>>

CacheNext ==
    \/ \E c \in Callers : CallGetSecret(c)
    \/ \E c \in Callers : FetchResolves(c)
    \/ \E c \in Callers : FetchRejects(c)

CacheSpec == CacheInit /\ [][CacheNext]_vars

----------------------------------------------------------------------------
(* The vocabulary of the properties, stated on the tokens themselves *)

\* a is later than b
After(a, b) == a.s > b.s \/ (a.s = b.s /\ a.ms > b.ms)

\* tok is header.claims.signature, HS256, signed with secret
SignedJwt(tok, secret) ==
    /\ Len(tok) = 3
    /\ tok[1] = B64(JwtHeaderText("HS256"))
    /\ tok[2].seg = "b64"
    /\ tok[2].of.fmt = "jwtclaims"
    /\ tok[3] = HmacB64(secret, JwsInput(tok[1], tok[2]))
\* ... for the resource of host, not expired, with a subject
ValidJwt(tok, secret, host) ==
    /\ SignedJwt(tok, secret)
    /\ tok[2].of.aud = "https://" \o host \o "/mcp"
    /\ tok[2].of.exp > now.s
    /\ tok[2].of.sub \notin {NoEmail, <<"">>}

\* tok is payload.signature, the signature the HMAC of the payload under secret
SignedEnvelope(tok, secret) ==
    /\ Len(tok) >= 2
    /\ tok[1].seg = "b64"
    /\ tok[2] = HmacB64(secret, tok[1].of)
\* a legacy token signed with secret, not expired
ValidLegacy(tok, secret) ==
    /\ SignedEnvelope(tok, secret)
    /\ tok[1].of.fmt = "colon"
    /\ ~After(now, tok[1].of.expiresAt)

\* the domain of an address: the text after its last '@'
DomainOf(email) == IF Len(email) >= 2 THEN email[Len(email)] ELSE Undefined
\* the value the deployment configures for a secret: the stored one where the
\* managed store holds it, else the environment's
Configured(name) ==
    IF gcp /\ Truthy(store[name]) THEN store[name] ELSE env[name]
\* the entries of an allow-list value, of the default where there is none
EntriesOf(value) ==
    IF value = "sentry.io, getsentry.com" THEN {"sentry.io", "getsentry.com"}
    ELSE {"sentry.io"}
\* the allow-list of the gate and of the sign-in flow: the environment's
AllowList == EntriesOf(env["ALLOWED_EMAIL_DOMAINS"])
\* the allow-list of the callback: the configured one
CallbackAllowList == EntriesOf(Configured("ALLOWED_EMAIL_DOMAINS"))
\* an address with one '@' at most
OneAt(email) == Len(email) <= 2

\* a POST to the gate with a bearer token, the gate having its signing secret
GateChecksBearer ==
    /\ resp.ep = "gate"
    /\ resp.method = "POST"
    /\ resp.authorization.scheme = "Bearer"
    /\ resp.secret # Undefined

----------------------------------------------------------------------------
(* Properties of the request gate *)

\* C1: the gate forwards a call to the downstream only if it is a POST with
\* 'Authorization: Bearer <token>', the token is a valid JWT for this host
\* (signed with the signing secret, aud https://<host>/mcp, not expired,
\* non-empty sub) or a valid legacy token (signed, not expired), and the
\* identity's domain is on the gate's allow-list.
C1_ForwardedOnlyIfVerifiedAndAllowed ==
    (resp.ep = "gate" /\ resp.forwarded) =>
        /\ GateChecksBearer
        /\ LET tok == resp.authorization.token
           IN \/ /\ ValidJwt(tok, resp.secret, resp.host)
                 /\ DomainOf(tok[2].of.sub) \in AllowList
              \/ /\ ValidLegacy(tok, resp.secret)
                 /\ DomainOf(tok[1].of.email) \in AllowList

\* a call is forwarded on a JWT
C1_Witness ==
    /\ resp.ep = "gate"
    /\ resp.forwarded
    /\ resp.status = 200
    /\ ValidJwt(resp.authorization.token, resp.secret, resp.host)

\* C2: a POST presenting a correctly signed, unexpired JWT whose aud is not
\* https://<request host>/mcp is answered 401 and not forwarded, by neither
\* verifier.
C2_WrongAudienceRejected ==
    (/\ GateChecksBearer
     /\ SignedJwt(resp.authorization.token, resp.secret)
     /\ resp.authorization.token[2].of.exp > now.s
     /\ resp.authorization.token[2].of.aud # "https://" \o resp.host \o "/mcp")
    => (resp.status = 401 /\ ~resp.forwarded /\ resp.via = "none")

\* a token minted for a.example is presented to b.example
C2_Witness ==
    /\ GateChecksBearer
    /\ SignedJwt(resp.authorization.token, resp.secret)
    /\ resp.authorization.token[2].of.exp > now.s
    /\ resp.authorization.token[2].of.aud = "https://a.example/mcp"
    /\ resp.host = "b.example"
    /\ resp.status = 401

\* C3: a POST to the gate (which has its signing secret) without an
\* Authorization header, with one that is not 'Bearer ', or with a bearer token
\* that fails both verifications, is answered 401 with WWW-Authenticate:
\* Bearer resource_metadata="https://<host>/.well-known/oauth-protected-resource";
\* every 401 of the gate carries that header.
C3_UnauthorizedCarriesHint ==
    resp.ep = "gate" =>
        LET tok == resp.authorization.token
            hint == "Bearer resource_metadata=\"https://" \o resp.host
                        \o "/.well-known/oauth-protected-resource\""
            failsBoth == /\ ~(/\ SignedJwt(tok, resp.secret)
                              /\ tok[2].of.exp > now.s
                              /\ tok[2].of.aud = "https://" \o resp.host \o "/mcp")
                         /\ ~(/\ SignedEnvelope(tok, resp.secret)
                              /\ tok[1].of.fmt = "colon" => ~After(now, tok[1].of.expiresAt))
        IN /\ resp.status = 401 => resp.wwwAuthenticate = hint
           /\ (/\ resp.method = "POST"
               /\ resp.secret # Undefined
               /\ (resp.authorization.scheme # "Bearer" \/ failsBoth))
              => (resp.status = 401 /\ resp.wwwAuthenticate = hint /\ ~resp.forwarded)

\* a POST without Authorization header, to the second host
C3_Witness ==
    /\ resp.ep = "gate"
    /\ resp.method = "POST"
    /\ resp.host = "b.example"
    /\ resp.authorization = NoAuthorization
    /\ resp.status = 401

\* C4: once a JWT or a legacy token has been verified, the gate answers 403
\* and does not forward if and only if the identity's domain is not, literally,
\* on the allow-list the gate is configured with: user@sentry.io passes,
\* user@gmail.com gets 403.
C4_ForbiddenIffDomainNotListed ==
    LET tok == resp.authorization.token
        viaJwt == ValidJwt(tok, resp.secret, resp.host)
        viaLegacy == ~viaJwt /\ ValidLegacy(tok, resp.secret)
        identity == IF viaJwt THEN tok[2].of.sub ELSE tok[1].of.email
    IN (GateChecksBearer /\ (viaJwt \/ viaLegacy)) =>
        /\ (resp.status = 403 /\ ~resp.forwarded) <=> DomainOf(identity) \notin AllowList
        /\ identity = UserSentry => resp.status # 403
        /\ identity = UserGmail => resp.status = 403

\* user@gmail.com, verified, is refused
C4_Witness ==
    /\ GateChecksBearer
    /\ ValidJwt(resp.authorization.token, resp.secret, resp.host)
    /\ resp.authorization.token[2].of.sub = UserGmail
    /\ resp.status = 403

----------------------------------------------------------------------------
(* Properties of the token endpoint *)

\* base64url(SHA256(v)), as the properties write it
Sha256B64(v) == "S256(" \o v \o ")"

C6_ResourceMustMatch ==
    resp.ep = "token" =>
        /\ resp.access_token # NoToken =>
             /\ resp.status = 200
             /\ resp.authData # Null
             /\ resp.body.resource = resp.authData.resource
        /\ (/\ resp.authData # Null
            /\ Sha256B64(resp.body.code_verifier) = resp.authData.codeChallenge
            /\ resp.body.resource # resp.authData.resource)
           => (resp.status = 400 /\ resp.error = "invalid_target"
               /\ resp.access_token = NoToken)

\* a verified code for a.example is presented with the resource of b.example
C6_Witness ==
    /\ resp.ep = "token"
    /\ resp.authData # Null
    /\ resp.authData.resource = "https://a.example/mcp"
    /\ resp.body.resource = "https://b.example/mcp"
    /\ resp.error = "invalid_target"

----------------------------------------------------------------------------
(* Properties of the flow: authorize, callback, token exchange, gate *)

\* the authorize request of the end-to-end scenario
ScenarioQuery ==
    [client_id |-> "cowork-connector", redirect_uri |-> ClientRedirect,
     state |-> ClientState, response_type |-> "code",
     code_challenge |-> Sha256B64("v1"), code_challenge_method |-> "S256",
     resource |-> "https://a.example/mcp"]
\* the token exchange of the scenario, for code
ScenarioExchange(code) ==
    [grant_type |-> "authorization_code", code |-> code,
     client_id |-> "cowork-connector", client_secret |-> "cs",
     redirect_uri |-> ClientRedirect, code_verifier |-> "v1",
     resource |-> "https://a.example/mcp"]

\* C7: the end-to-end flow completes.  A code the callback issued to
\* alice@sentry.io for an authorize request with the configured client, a
\* valid S256 challenge and resource https://host/mcp, exchanged within ten
\* minutes with the matching verifier and the same resource, gets 200 and an
\* access token; a gate call on that host with that token is forwarded with
\* identity alice@sentry.io.  (The secret store answers throughout.)
C7_FlowCompletes ==
    [][/\ (/\ IssuedCode
           /\ resp.flow = ScenarioQuery
           /\ resp.idp = IdpOk(Alice)
           /\ ~After(now, resp.code[1].of.expiresAt)
           /\ resp'.ep = "token"
           /\ resp'.method = "POST"
           /\ resp'.host = "a.example"
           /\ resp'.body = ScenarioExchange(resp.code)
           /\ events' = events)
          => (resp'.status = 200 /\ resp'.access_token # NoToken)
       /\ (/\ IssuedJwt
           /\ resp.host = "a.example"
           /\ resp.authData.email = Alice
           /\ resp.authData.resource = "https://a.example/mcp"
           /\ resp'.ep = "gate"
           /\ resp'.method = "POST"
           /\ resp'.host = "a.example"
           /\ resp'.authorization = [scheme |-> "Bearer", token |-> resp.access_token]
           /\ events' = events)
          => (resp'.forwarded /\ resp'.email = Alice)
      ]_vars

\* C8: the token endpoint verifies a code with the TOKEN_SECRET it got from
\* the secret provider, the one the callback signs with: an unexpired code
\* signed with it, presented with the right verifier and resource by the
\* configured client, is exchanged; a code signed with any other key is
\* refused with invalid_grant and never exchanged.
C8_CodeVerifiedWithProviderSecret ==
    (/\ resp.ep = "token"
     /\ resp.method = "POST"
     /\ resp.secret # Undefined
     /\ resp.body.code # NoToken
     /\ resp.body = [ScenarioExchange(resp.body.code) EXCEPT
                        !.code_verifier = resp.body.code_verifier,
                        !.resource = resp.body.resource]
     /\ resp.body.code_verifier # Undefined
     /\ resp.body.resource # Undefined)
    => LET code == resp.body.code
           signed == SignedEnvelope(code, resp.secret) /\ code[1].of.fmt = "json"
       IN /\ ~signed => (resp.status = 400 /\ resp.error = "invalid_grant"
                         /\ resp.access_token = NoToken)
          /\ (/\ signed
              /\ ~After(now, code[1].of.expiresAt)
              /\ Sha256B64(resp.body.code_verifier) = code[1].of.codeChallenge
              /\ resp.body.resource = code[1].of.resource)
             => (resp.status = 200 /\ resp.access_token # NoToken)

\* C9: codes are single-use.  A token request presenting a code that has been
\* exchanged before gets no access token.
C9_CodeSingleUse ==
    (resp.ep = "token" /\ resp.nth >= 1) =>
        (resp.status # 200 /\ resp.access_token = NoToken)

\* C10: once the stored TOKEN_SECRET has been replaced, a POST to the gate
\* with a bearer token signed with the old value is answered 401, and a token
\* request with a code signed with the old value gets no access token, warm
\* instance or not.  (The secret store answers.)
C10_RotationInvalidates ==
    [][(store["TOKEN_SECRET"] = "s2" /\ resp' # resp /\ events' = events) =>
        /\ (/\ resp'.ep = "gate"
            /\ resp'.method = "POST"
            /\ resp'.authorization.scheme = "Bearer"
            /\ \/ SignedJwt(resp'.authorization.token, "s1")
               \/ /\ SignedEnvelope(resp'.authorization.token, "s1")
                  /\ resp'.authorization.token[1].of.fmt = "colon")
           => (resp'.status = 401 /\ ~resp'.forwarded)
        /\ (/\ resp'.ep = "token"
            /\ SignedEnvelope(resp'.body.code, "s1"))
           => (resp'.status # 200 /\ resp'.access_token = NoToken)
      ]_vars

\* C11: the authorize endpoint redirects to the identity provider only when
\* the request carries code_challenge, code_challenge_method S256 and
\* resource; a request that is otherwise well formed and lacks code_challenge
\* or resource, or names another method, is answered 4xx invalid_request.
C11_AuthorizeRequiresPkceAndResource ==
    resp.ep = "authorize" =>
        LET q == resp.q
            complete == /\ Truthy(q.code_challenge)
                        /\ q.code_challenge_method = "S256"
                        /\ Truthy(q.resource)
        IN /\ resp.status = 302 => complete
           /\ (resp.status # 500 /\ ~complete) =>
                 (resp.status \in 400..499 /\ resp.error = "invalid_request")

\* C12: the codeChallenge and the resource inside a code the callback issues
\* are the code_challenge and the resource of the authorize request that
\* started the flow.
C12_CodeCarriesChallengeAndResource ==
    (IssuedCode /\ resp.flow # NoFlow) =>
        LET parsed == B64Decode(resp.code[1])
        IN /\ parsed.codeChallenge = resp.flow.code_challenge
           /\ parsed.resource = resp.flow.resource

\* C13: the token endpoint issues a token only if client_id is the configured
\* connector client id and client_secret is the configured connector client
\* secret; a request that is otherwise complete and carries another client_id
\* or client_secret is answered 401 invalid_client with no token.
C13_ClientAuthenticated ==
    resp.ep = "token" =>
        LET b == resp.body
            known == /\ b.client_id = Configured("COWORK_OAUTH_CLIENT_ID")
                     /\ b.client_secret = Configured("COWORK_OAUTH_CLIENT_SECRET")
            complete == /\ resp.status # 500
                        /\ resp.method = "POST"
                        /\ b.grant_type = "authorization_code"
                        /\ b.code # NoToken
                        /\ Truthy(b.client_id) /\ Truthy(b.redirect_uri)
                        /\ Truthy(b.code_verifier) /\ Truthy(b.resource)
        IN /\ resp.access_token # NoToken => known
           /\ (complete /\ ~known) =>
                 (/\ resp.status = 401
                  /\ resp.error = "invalid_client"
                  /\ resp.access_token = NoToken)

----------------------------------------------------------------------------
(* Properties of the callback *)

\* C14: the callback issues a code, and redirects to the client with it, only
\* for an identity whose domain is on the allow-list; for an asserted identity
\* of another domain it answers 403 and issues no code.  No code the callback
\* issues carries an identity outside the allow-list.
C14_CodeOnlyForAllowedDomain ==
    resp.ep = "callback" =>
        LET identity == resp.idp.email
            asserted == /\ resp.status # 500
                        /\ ~Truthy(resp.query.error)
                        /\ Truthy(resp.query.code)
                        /\ resp.query.state \notin {NoState, GarbageState}
                        /\ resp.idp.outcome = "ok"
                        /\ identity # NoEmail
        IN /\ (resp.code # NoToken \/ resp.status = 302) =>
                 /\ IssuedCode /\ resp.code # NoToken
                 /\ DomainOf(identity) \in CallbackAllowList
                 /\ B64Decode(resp.code[1]).email = identity
           /\ (asserted /\ DomainOf(identity) \notin CallbackAllowList) =>
                 (resp.status = 403 /\ resp.code = NoToken)

\* user@gmail.com is turned away, and so is eve@Sentry.io
C14_Witness ==
    /\ resp.ep = "callback"
    /\ resp.idp.email \in {UserGmail, Eve}
    /\ resp.status = 403
    /\ resp.code = NoToken

----------------------------------------------------------------------------
(* Properties of the signed envelopes *)

\* a POST to the gate whose bearer is a legacy token signed with the secret
\* the gate obtained
GateChecksLegacy ==
    /\ GateChecksBearer
    /\ SignedEnvelope(resp.authorization.token, resp.secret)
    /\ resp.authorization.token[1].of.fmt = "colon"
    /\ resp.authorization.token[1].of.expiresAt # NaN

ExchangeComplete(r) ==
    /\ r.ep = "token"
    /\ r.status # 500
    /\ r.method = "POST"
    /\ r.body.grant_type = "authorization_code"
    /\ r.body.code # NoToken
    /\ Truthy(r.body.redirect_uri)
    /\ Truthy(r.body.code_verifier) /\ Truthy(r.body.resource)
    /\ r.body.client_id = Configured("COWORK_OAUTH_CLIENT_ID")
    /\ r.body.client_secret = Configured("COWORK_OAUTH_CLIENT_SECRET")

\* C16: a code the callback issues carries expiresAt = issue time + 600000 ms;
\* a token exchange presenting a code later than its expiresAt is answered
\* 400 invalid_grant and gets no token; and a code the token endpoint
\* verifies has a numeric expiresAt that is not in the past.
C16_CodeExpiry ==
    [][resp' # resp =>
        /\ (resp'.ep = "callback" /\ resp'.code # NoToken) =>
              B64Decode(resp'.code[1]).expiresAt = PlusMs(now', 600000)
        /\ (/\ resp'.ep = "token"
            /\ resp'.body.code[1].seg = "b64"
            /\ resp'.body.code[1].of.fmt = "json") =>
              LET expiresAt == resp'.body.code[1].of.expiresAt
              IN /\ (expiresAt # NaN /\ After(now', expiresAt)) =>
                       /\ resp'.access_token = NoToken
                       /\ ExchangeComplete(resp') =>
                             (resp'.status = 400 /\ resp'.error = "invalid_grant")
                 /\ resp'.authData # Null =>
                       (expiresAt # NaN /\ ~After(now', expiresAt))
      ]_vars

----------------------------------------------------------------------------
(* Properties of the issuers and the verifiers *)

Verified == resp.ep \in {"verifyApiToken", "verifyAuthCode", "gateIdentity"}

\* C18: a legacy token, an authorization code or an access token signed with
\* one secret is rejected by a verifier given another secret: verifyApiToken
\* and verifyAuthCode return null, the gate finds no identity (and answers
\* 401).
C18_CrossSecretRejected ==
    (Verified /\ resp.secret # resp.issued.secret) => resp.result = Null

\* a token the same verifier accepts under its own secret is refused under
\* another one
C18_Witness ==
    /\ resp.ep = "verifyApiToken"
    /\ resp.issued.ep = "generateApiToken"
    /\ resp.how = "none"
    /\ resp.issued.secret = "s1"
    /\ resp.secret = "s2"
    /\ ~After(now, PlusSeconds(resp.issued.at, YearSeconds))
    /\ resp.result = Null

\* C19: round trip.  Before its expiry, verifyApiToken(generateApiToken(email,
\* S), S) returns that email and the issued expiresAt, for every identity
\* string email; verifyAuthCode(generateAuthCode(email, S, challenge,
\* resource), S) returns the same email, challenge, resource and expiresAt.
C19_RoundTrip ==
    (/\ resp.ep \in {"verifyApiToken", "verifyAuthCode"}
     /\ resp.how = "none"
     /\ resp.secret = resp.issued.secret) =>
        LET g == resp.issued
        IN /\ (/\ resp.ep = "verifyApiToken"
               /\ g.ep = "generateApiToken"
               /\ ~After(now, PlusSeconds(g.at, YearSeconds))) =>
                 resp.result = [email |-> g.email,
                                expiresAt |-> PlusSeconds(g.at, YearSeconds)]
           /\ (/\ resp.ep = "verifyAuthCode"
               /\ g.ep = "generateAuthCode"
               /\ ~After(now, PlusMs(g.at, CodeTtlMs))) =>
                 resp.result = [email |-> g.email,
                                expiresAt |-> PlusMs(g.at, CodeTtlMs),
                                codeChallenge |-> g.codeChallenge,
                                resource |-> g.resource]

\* C20: tamper detection.  A legacy token or an authorization code one
\* character of whose signature segment has been changed is refused:
\* verifyApiToken and verifyAuthCode return null.
C20_TamperDetected ==
    (/\ \/ resp.ep = "verifyApiToken" /\ resp.issued.ep = "generateApiToken"
        \/ resp.ep = "verifyAuthCode" /\ resp.issued.ep = "generateAuthCode"
     /\ resp.how \in {"char", "dot"}) =>
        resp.result = Null

\* a code that its verifier would accept, refused for one changed character
C20_Witness ==
    /\ resp.ep = "verifyAuthCode"
    /\ resp.issued.ep = "generateAuthCode"
    /\ resp.how = "char"
    /\ resp.secret = resp.issued.secret
    /\ ~After(now, PlusMs(resp.issued.at, CodeTtlMs))
    /\ resp.result = Null

\* C21: fail closed.  verifyApiToken and verifyAuthCode return null, as for a
\* bad signature, for every string that is empty, has no '.', is not
\* base64url or whose payload does not parse; and the gate's verification
\* finds no identity in it (so the gate answers 401).
C21_FailClosed ==
    (Verified /\ resp.issued.ep = "crafted") => resp.result = Null

----------------------------------------------------------------------------
(* Properties of the authorization server *)

\* C22: the authorization server issues tokens only for its own resource.  An
\* authorize request, or an otherwise complete token request, whose resource
\* is not https://<host of the server>/mcp is rejected with invalid_target,
\* and every access token has aud = https://<issuing host>/mcp.
C22_OwnResourceOnly ==
    /\ (/\ resp.ep = "authorize"
        /\ resp.status # 500
        /\ resp.q.client_id = Configured("COWORK_OAUTH_CLIENT_ID")
        /\ Truthy(resp.q.redirect_uri) /\ Truthy(resp.q.state)
        /\ resp.q.response_type = "code"
        /\ Truthy(resp.q.resource)
        /\ resp.q.resource # "https://" \o resp.host \o "/mcp") =>
          (resp.status # 302 /\ resp.error = "invalid_target")
    /\ (/\ ExchangeComplete(resp)
        /\ resp.body.resource # "https://" \o resp.host \o "/mcp") =>
          (resp.access_token = NoToken /\ resp.error = "invalid_target")
    /\ IssuedJwt =>
          B64Decode(resp.access_token[2]).aud = "https://" \o resp.host \o "/mcp"

\* C23: a token exchange succeeds only if its redirect_uri is the redirect_uri
\* of the authorization request that produced the presented code; with
\* another redirect_uri it is answered with an error and no token.
C23_RedirectUriBound ==
    [][(/\ IssuedCode
        /\ resp'.ep = "token"
        /\ resp'.body.code = resp.code
        /\ resp'.body.redirect_uri # resp.location) =>
          (/\ resp'.status # 200
           /\ resp'.error # "none"
           /\ resp'.access_token = NoToken)
      ]_vars

----------------------------------------------------------------------------
(* Properties of the error handling *)

\* a request has been answered, during an outage of the managed store or not
Answered == resp' # resp /\ resp'.ep \notin {"idle"}
StoreAnswers == events' = events
\* getSecret(name) throws in the request being answered: nothing cached, no
\* stored value to be had, nothing in the environment
FetchFails(name) ==
    /\ secretCache[name] = Undefined
    /\ ~(gcp /\ StoreAnswers /\ Truthy(store[name]))
    /\ ~Truthy(env[name])
\* the secrets an endpoint fetches before it does anything else
FetchedUpFront(ep) ==
    CASE ep = "authorize" -> {"GOOGLE_CLIENT_ID", "COWORK_OAUTH_CLIENT_ID"}
      [] ep = "token" -> {"COWORK_OAUTH_CLIENT_ID", "COWORK_OAUTH_CLIENT_SECRET",
                          "TOKEN_SECRET"}
      [] ep = "callback" -> {"GOOGLE_CLIENT_ID", "GOOGLE_CLIENT_SECRET",
                             "TOKEN_SECRET", "ALLOWED_EMAIL_DOMAINS"}
      [] OTHER -> {}

\* C24: configuration failure is surfaced.  When the fetch of a secret an
\* endpoint uses fails, the request is answered 500: at the authorize, token
\* and callback endpoints for each secret they fetch up front, at the gate for
\* TOKEN_SECRET on a POST and for the Gong credentials once the caller has
\* been let through.
C24_ConfigurationFailureSurfaced ==
    [][Answered =>
        /\ (\E name \in FetchedUpFront(resp'.ep) : FetchFails(name)) =>
              resp'.status = 500
        /\ (resp'.ep = "gate" /\ resp'.method = "POST") =>
              /\ FetchFails("TOKEN_SECRET") => resp'.status = 500
              /\ (/\ resp'.status \notin {401, 403}
                  /\ \E name \in {"GONG_ACCESS_KEY", "GONG_ACCESS_KEY_SECRET"} :
                        FetchFails(name)) =>
                    (resp'.status = 500 /\ ~resp'.forwarded)
      ]_vars

\* C25: every 500 answered by the gate, the callback or the sign-in flow
\* carries a generic message only: the text of the failure underneath (the
\* exception's message) is not in the response body.
C25_GenericServerErrors ==
    (resp.ep \in {"gate", "callback", "signin"} /\ resp.status = 500) =>
        resp.message = "generic"

----------------------------------------------------------------------------
(* Properties of the legacy sign-in flow *)

\* C26: the sign-in flow issues a token only after the identity provider
\* returned an identity whose domain is on the allow-list, with expiresAt =
\* issue time + 365 days; the gate, on any host, accepts such a token as that
\* identity at every time up to its expiresAt while the signing secret is
\* the one it was signed with, and rejects it at every later time.
C26_LegacySignIn ==
    [][resp' # resp =>
        /\ (resp'.ep = "signin" /\ resp'.token # NoToken) =>
              /\ resp'.idp.outcome = "ok"
              /\ DomainOf(resp'.idp.email) \in AllowList
              /\ resp'.token[1].of = ColonText(resp'.idp.email,
                                               PlusSeconds(now', 365 * 24 * 60 * 60))
              /\ resp'.token[2] = HmacB64(resp'.secret, resp'.token[1].of)
        /\ (/\ resp'.ep = "gate" /\ resp'.method = "POST"
            /\ resp'.authorization.scheme = "Bearer"
            /\ resp'.secret # Undefined
            /\ SignedEnvelope(resp'.authorization.token, resp'.secret)
            /\ resp'.authorization.token[1].of.fmt = "colon"
            /\ resp'.authorization.token[1].of.expiresAt # NaN
            /\ DomainOf(resp'.authorization.token[1].of.email) \in AllowList) =>
              LET payload == resp'.authorization.token[1].of
              IN /\ ~After(now', payload.expiresAt) =>
                       /\ resp'.via = "legacy"
                       /\ resp'.email = payload.email
                       /\ resp'.status \notin {401, 403}
                 /\ After(now', payload.expiresAt) =>
                       (resp'.status = 401 /\ ~resp'.forwarded)
      ]_vars

\* alice's sign-in token, let through at host b.example later on
C26_Witness ==
    /\ GateChecksLegacy
    /\ resp.host = "b.example"
    /\ resp.authorization.token[1].of.email = Alice
    /\ now.s > 0
    /\ ~After(now, resp.authorization.token[1].of.expiresAt)
    /\ resp.status = 200
    /\ resp.forwarded

----------------------------------------------------------------------------
(* Properties of discovery *)

\* C27: discovery is consistent with enforcement.  For every host H the
\* protected-resource document names the resource https://H/mcp, the audience
\* the gate expects at H, and the single authorization server https://H, which
\* is the issuer the authorization-server document names; that document lists
\* the grant type authorization_code and the challenge method S256 only.
C27_DiscoveryConsistent ==
    /\ (resp.ep = "oauth-protected-resource" /\ resp.status = 200) =>
          /\ resp.resource = "https://" \o resp.host \o "/mcp"
          /\ resp.resource = ResourceOf(resp.host)
          /\ resp.authorization_servers = <<"https://" \o resp.host>>
          /\ resp.authorization_servers[1] =
                AuthorizationServerHandler("GET", resp.host).issuer
    /\ (resp.ep = "oauth-authorization-server" /\ resp.status = 200) =>
          /\ resp.issuer = "https://" \o resp.host
          /\ <<resp.issuer>> =
                ProtectedResourceHandler("GET", resp.host).authorization_servers
          /\ resp.grant_types_supported = <<"authorization_code">>
          /\ resp.code_challenge_methods_supported = <<"S256">>
    /\ (resp.ep = "gate" /\ resp.via = "jwt") =>
          B64Decode(resp.authorization.token[2]).aud =
                ProtectedResourceHandler("GET", resp.host).resource

\* the document for host b.example
C27_Witness ==
    /\ resp.ep = "oauth-protected-resource"
    /\ resp.host = "b.example"
    /\ resp.status = 200
    /\ resp.resource = "https://b.example/mcp"

----------------------------------------------------------------------------
(* Properties across the credential kinds *)

\* C28: credential kinds are not interchangeable.  An authorization code
\* presented to the gate as a bearer token yields no identity and is answered
\* 401; a legacy token or an access token presented to the token endpoint as
\* the code is answered invalid_grant and gets no token.
C28_KindsNotInterchangeable ==
    /\ (/\ GateChecksBearer
        /\ resp.authorization.token[1].seg = "b64"
        /\ resp.authorization.token[1].of.fmt = "json") =>
          (resp.status = 401 /\ resp.via = "none" /\ resp.email = NoEmail)
    /\ (/\ ExchangeComplete(resp)
        /\ \/ /\ resp.body.code[1].seg = "b64"
              /\ resp.body.code[1].of.fmt = "colon"
           \/ Len(resp.body.code) = 3) =>
          (/\ resp.status = 400
           /\ resp.error = "invalid_grant"
           /\ resp.access_token = NoToken)

----------------------------------------------------------------------------
(* Properties of the allow-list *)

\* C29: the callback and the gate evaluate the same allow-list.  Under any
\* one deployment, an identity the callback issues a code for passes the
\* gate's domain check, and an access token of the OAuth flow for an identity
\* the callback lets through is never answered 403 by the gate.
C29_CallbackAndGateAgree ==
    /\ (IssuedCode /\ OneAt(resp.idp.email)) =>
          DomainOf(resp.idp.email) \in AllowList
    /\ (/\ GateChecksBearer
        /\ resp.via = "jwt"
        /\ OneAt(resp.email)
        /\ DomainOf(resp.email) \in CallbackAllowList) =>
          resp.status # 403

\* the text after the last '@' of an address
LastDomain(email) == email[Len(email)]

\* C30: the domain tested against the allow-list is the text after the last
\* '@' of the identity: an identity with more than one '@' is let through, at
\* the gate, at the callback and at sign-in, only if its final domain is on
\* the allow-list.
C30_LastDomainTested ==
    /\ IssuedCode => LastDomain(resp.idp.email) \in CallbackAllowList
    /\ IssuedApiToken => LastDomain(resp.idp.email) \in AllowList
    /\ (resp.ep = "gate" /\ resp.forwarded) => LastDomain(resp.email) \in AllowList

----------------------------------------------------------------------------
(* Properties of the envelope and of the gate's order *)

\* C31: the legacy-token and the authorization-code verifiers accept only
\* <payload>.<signature> with exactly one '.': an issued token with a further
\* '.'-separated suffix appended is refused, verifyApiToken and verifyAuthCode
\* return null for it.
C31_ExactlyOneSeparator ==
    (/\ \/ resp.ep = "verifyApiToken" /\ resp.issued.ep = "generateApiToken"
        \/ resp.ep = "verifyAuthCode" /\ resp.issued.ep = "generateAuthCode"
     /\ resp.how = "suffix") =>
        resp.result = Null

\* tok passes the JWT verification of the gate at host: signed with secret,
\* for the resource of host, not expired
JwtPasses(tok, secret, host) ==
    /\ SignedJwt(tok, secret)
    /\ tok[2].of.aud = "https://" \o host \o "/mcp"
    /\ tok[2].of.exp > now.s
\* tok has the form of a JWT: header.claims.signature
JwtShaped(tok) ==
    /\ Len(tok) = 3
    /\ tok[1].seg = "b64" /\ tok[1].of.fmt = "jwthdr"
    /\ tok[2].seg = "b64" /\ tok[2].of.fmt = "jwtclaims"

\* C32: for each bearer credential the gate calls the JWT verifier first and
\* the legacy verifier if and only if the JWT verification failed; a JWT that
\* failed the JWT verification (audience, expiry, signature) is not accepted
\* by the legacy verifier: no identity, 401.
C32_JwtFirstLegacyIffFailed ==
    GateChecksBearer =>
        LET tok == resp.authorization.token
            passes == JwtPasses(tok, resp.secret, resp.host)
        IN /\ resp.tried \in {<<"jwt">>, <<"jwt", "legacy">>}
           /\ resp.tried = <<"jwt", "legacy">> <=> ~passes
           /\ (passes /\ TruthyEmail(resp.email)) => resp.via = "jwt"
           /\ (JwtShaped(tok) /\ ~passes) =>
                 /\ resp.via = "none"
                 /\ resp.status = 401
                 /\ ~resp.forwarded

\* an access token presented at the other host: the JWT verifier refuses the
\* audience, the legacy verifier is called and refuses it too
C32_Witness ==
    /\ GateChecksBearer
    /\ resp.host = "b.example"
    /\ SignedJwt(resp.authorization.token, resp.secret)
    /\ resp.authorization.token[2].of.exp > now.s
    /\ resp.tried = <<"jwt", "legacy">>
    /\ resp.status = 401

\* C33: a bearer token that passes the JWT verification but has no sub, or an
\* empty one, establishes no identity: the gate answers 401 with the
\* discovery hint, does not call the legacy verifier and does not forward.
C33_NoSubNoIdentity ==
    (/\ GateChecksBearer
     /\ JwtPasses(resp.authorization.token, resp.secret, resp.host)
     /\ ~TruthyEmail(resp.authorization.token[2].of.sub)) =>
        /\ resp.status = 401
        /\ resp.wwwAuthenticate = ResourceMetadataHint(resp.host)
        /\ resp.tried = <<"jwt">>
        /\ resp.via = "jwt"
        /\ ~resp.forwarded

\* an access token with sub '' that verifies at its host, answered 401
C33_Witness ==
    /\ GateChecksBearer
    /\ JwtPasses(resp.authorization.token, resp.secret, resp.host)
    /\ resp.authorization.token[2].of.sub = EmptyEmail
    /\ resp.status = 401
    /\ resp.tried = <<"jwt">>

----------------------------------------------------------------------------
(* Properties of the order of the checks *)

\* the nine checks of the token endpoint on the answered request r, in order:
\* the number of the first that fails, 10 when all pass
FirstFailing(r) ==
    LET b == r.body
        code == b.code
        signed == /\ SignedEnvelope(code, r.secret)
                  /\ code[1].of.fmt = "json"
                  /\ code[1].of.expiresAt # NaN
                  /\ ~After(now, code[1].of.expiresAt)
    IN CASE b.grant_type # "authorization_code" -> 1
         [] OTHER ->
        IF b.code = NoToken \/ ~Truthy(b.client_id) \/ ~Truthy(b.redirect_uri) THEN 2
        ELSE IF ~Truthy(b.code_verifier) THEN 3
        ELSE IF ~Truthy(b.resource) THEN 4
        ELSE IF b.client_id # Configured("COWORK_OAUTH_CLIENT_ID") THEN 5
        ELSE IF b.client_secret # Configured("COWORK_OAUTH_CLIENT_SECRET") THEN 6
        ELSE IF ~signed THEN 7
        ELSE IF S256(b.code_verifier) # code[1].of.codeChallenge THEN 8
        ELSE IF b.resource # code[1].of.resource THEN 9
        ELSE 10
\* the error of each check
ErrorOf(k) ==
    CASE k = 1 -> "unsupported_grant_type"
      [] k \in {2, 3, 4} -> "invalid_request"
      [] k \in {5, 6} -> "invalid_client"
      [] k \in {7, 8} -> "invalid_grant"
      [] k = 9 -> "invalid_target"
      [] OTHER -> "none"

\* C34: the token endpoint takes its checks in one order - grant_type,
\* presence of code/client_id/redirect_uri, of code_verifier, of resource,
\* client_id, client_secret, the code's signature and expiry, PKCE, resource
\* equality -, answers with the error of the first that fails, and issues a
\* token only when all nine pass.
C34_TokenChecksInOrder ==
    [][(/\ resp' # resp
        /\ resp'.ep = "token"
        /\ resp'.method = "POST"
        /\ resp'.status # 500) =>
          LET k == FirstFailing(resp')
          IN /\ resp'.error = ErrorOf(k)
             /\ resp'.access_token # NoToken <=> k = 10
      ]_vars

----------------------------------------------------------------------------
(* Properties of the flow through the identity provider *)

\* C36: the state survives the round trip through the identity provider.  On
\* a successful callback that follows an authorize request, the redirect goes
\* to exactly the redirect_uri of that request, with state the client's
\* original state and code the authorization code just issued, for the
\* asserted identity and signed with the signing secret.
C36_StateRoundTrip ==
    (IssuedCode /\ resp.flow # NoFlow) =>
        /\ resp.location = resp.flow.redirect_uri
        /\ resp.state = resp.flow.state
        /\ SignedEnvelope(resp.code, resp.secret)
        /\ resp.code[1].of.fmt = "json"
        /\ resp.code[1].of.email = resp.idp.email

\* a flow begun with another redirect_uri, and one with another state,
\* brought back to the client
C36_Witness ==
    /\ IssuedCode
    /\ resp.flow # NoFlow
    /\ \/ resp.flow.redirect_uri = OtherRedirect /\ resp.location = OtherRedirect
       \/ resp.flow.state = OtherState /\ resp.state = OtherState

----------------------------------------------------------------------------
(* Properties of the secret cache *)

\* C37: the race on the secret cache is harmless.  Whatever the interleaving
\* of concurrent getSecret(name) calls that start on a cold cache, the stored
\* value staying the same, every call returns the same value and the cache
\* then maps name to that value, also when the fetch from the managed store
\* fails for some callers and succeeds for others.
C37_CacheRaceHarmless ==
    resp.ep = "getSecret" =>
        \A c \in Callers : resp.pc[c] = "returned" =>
            /\ \A d \in Callers : resp.pc[d] = "returned" =>
                                      resp.value[d] = resp.value[c]
            /\ secretCache[resp.name] = resp.value[c]

----------------------------------------------------------------------------
(* Properties of the function instance *)

RequestEndpoints ==
    {"gate", "authorize", "callback", "token", "signin",
     "oauth-protected-resource", "oauth-authorization-server"}
\* what the gate decided: the status it answered, or that it forwarded
Decision(r) == IF r.forwarded THEN "forwarded" ELSE r.status

\* C38: statelessness.  Handling a request changes nothing of the process but
\* the secret cache, to which it only adds entries; and what the gate decides
\* is a function of the method, the headers, the time and the configuration:
\* with the managed store answering, it decides as an instance that has
\* handled no request before decides on the same call.
C38_Stateless ==
    [][(resp' # resp /\ resp'.ep \in RequestEndpoints) =>
        /\ env' = env
        /\ \A n \in SecretNames :
              secretCache[n] # Undefined => secretCache'[n] = secretCache[n]
        /\ (resp'.ep = "gate" /\ events' = events) =>
              Decision(resp') =
                Decision(GateHandlerOn(EmptyCache, resp'.method, resp'.host,
                                       resp'.authorization, TRUE, "ok").resp)
      ]_vars

----------------------------------------------------------------------------
(* Properties of the gate's control flow *)

\* the first check of the gate a request fails, the checks being those the
\* gate makes (its two verifiers, its own reading of the domain and of the
\* allow-list), taken in the order method, signing-secret fetch, header, token
\* verification, domain, Gong-credential fetch; "none" when it passes all
FirstFailingGateCheck(r) ==
    LET tok == r.authorization.token
        decoded == JwtVerify(tok, r.secret, ResourceOf(r.host))
        apiTokenData == verifyApiToken(tok, r.secret)
        identity == IF decoded # Null THEN decoded.sub
                    ELSE IF apiTokenData # Null THEN apiTokenData.email
                    ELSE NoEmail
    IN IF r.method # "POST" THEN "method"
       ELSE IF FetchFails("TOKEN_SECRET") THEN "signing secret"
       ELSE IF r.authorization.scheme # "Bearer" THEN "header"
       ELSE IF ~TruthyEmail(identity) THEN "token"
       ELSE IF ~Includes(GateAllowedDomains, EmailDomain(identity)) THEN "domain"
       ELSE IF FetchFails("GONG_ACCESS_KEY") \/ FetchFails("GONG_ACCESS_KEY_SECRET")
       THEN "gong credentials"
       ELSE "none"

\* C39: every gate invocation produces exactly one response: 405 for a
\* non-POST, else 500 when the signing-secret fetch fails, else 401 for a
\* missing or non-Bearer header, else 401 when token verification fails, else
\* 403 for a domain off the list, else 500 when the Gong-credential fetch
\* fails, else the downstream response, or 500 when the downstream call fails
\* before anything was sent; when the downstream body fails while it is
\* streamed, after the headers were sent, no second response is written.
C39_OneOutcomeInOrder ==
    [][(resp' # resp /\ resp'.ep = "gate") =>
        LET r == resp'
            k == FirstFailingGateCheck(r)
        IN /\ r.written = 1
           /\ k = "method" => (r.status = 405 /\ ~r.forwarded)
           /\ k = "signing secret" => (r.status = 500 /\ ~r.forwarded)
           /\ k \in {"header", "token"} => (r.status = 401 /\ ~r.forwarded)
           /\ k = "domain" => (r.status = 403 /\ ~r.forwarded)
           /\ k = "gong credentials" => (r.status = 500 /\ ~r.forwarded)
           /\ k = "none" =>
                 /\ r.forwarded
                 /\ r.downstream = "ok" => (r.status = 200 /\ r.ended)
                 /\ r.downstream = "throws" => (r.status = 500 /\ r.ended)
                 /\ r.downstream = "breaks" => (r.status = 200 /\ ~r.ended)
      ]_vars

\* the downstream body broke off after the headers were sent, and the
\* response begun is the only one
C39_Witness ==
    /\ resp.ep = "gate"
    /\ resp.forwarded
    /\ resp.downstream = "breaks"
    /\ resp.written = 1
    /\ resp.status = 200

====
